---- MODULE Spec2Model ----
(***************************************************************************)
(* A model of zlib-rs' stored-block strategy, deflate_stored               *)
(* (src/src/deflate_algorithm/stored.rs), as a state machine: one action   *)
(* is one call of deflate_stored on a compression stream, with the         *)
(* caller's part of the protocol (supplying input, supplying output space, *)
(* draining the pending buffer) made explicit.                             *)
(* The C boundary of libz-rs-sys (src/libz-rs-sys/src/lib.rs) is a second  *)
(* state machine over the caller's z_stream: one action is one call of an  *)
(* entry point, and the engine behind it is seen only through whether it   *)
(* is invoked and what it returns.                                         *)
(*                                                                         *)
(* The input stream is labelled by position: the i-th byte the caller      *)
(* ever supplies has the value i.  deflate_stored never branches on the    *)
(* value of a data byte, so every concrete input is a renaming of this     *)
(* one, and a byte lost, duplicated or moved shows in the labels.          *)
(***************************************************************************)
EXTENDS Integers, Sequences, FiniteSets, TLC

VARIABLES
    w_size,        \* state.w_size: the history size
    window_size,   \* state.window_size: the window buffer's size
    pending_cap,   \* state.pending.capacity()
    prime_bits,    \* bits primed into the bit buffer before the first call
    window,        \* state.window: window_size cells, 0 = never written
    strstart,      \* state.strstart
    block_start,   \* state.block_start
    insert,        \* state.insert
    matches,       \* state.matches
    high_water,    \* state.high_water
    pending,       \* state.pending: the bytes buffered and not yet flushed
    bi_buf,        \* state.bi_buf: the leftover bits, as a number
    bi_valid,      \* state.bi_valid: how many leftover bits
    avail_in,      \* stream.avail_in
    total_in,      \* stream.total_in; next_in is position total_in of the input
    avail_out,     \* stream.avail_out
    out,           \* every byte written through next_out so far
    adler,         \* stream.adler: the running check value
    checked,       \* the bytes passed to the check value's update, in order
    flush,         \* the flush argument of the latest call
    status,        \* the latest call's BlockState ("Init" before the first)
    steps,         \* <<avail_in, avail_out>> at entry to the latest call and after
                   \* each update in it; empty once the caller has taken the output
    allocator,     \* the allocator feature libz-rs-sys is built with
    z_stream,      \* the caller's z_stream: zalloc, zfree, opaque, state
    call           \* the latest call of an entry point of libz-rs-sys

vars == <<w_size, window_size, pending_cap, prime_bits, window, strstart,
          block_start, insert, matches, high_water, pending, bi_buf, bi_valid,
          avail_in, total_in, avail_out, out, adler, checked, flush, status,
          steps, allocator, z_stream, call>>

(***************************************************************************)
(* Bounds of the model.                                                    *)
(***************************************************************************)
\* the longest input stream a caller supplies over all calls
MaxInput == 5
\* the largest avail_out a caller offers in one call
MaxOut == 14
\* the largest payload of one stored block.  The format's LEN field makes it
\* 65535; it is scaled down with the window, and stays above w_size as in
\* every real configuration, so that one call writes several blocks.
MaxStored == 3
\* the largest history size (w_size) a stream is configured with
MaxWSize == 2
\* the largest pending buffer capacity a stream is configured with
MaxPendingCap == 7

\* the smallest configurations: a history of two bytes, and a pending buffer
\* that holds a block header with one payload byte behind it
WSizes == 2..MaxWSize
PendingCaps == 7..MaxPendingCap
\* the leftover bit counts a stream starts with (deflatePrime, a level
\* switch): none, the most that keep the header at five bytes, the fewest
\* that make it six, and the most there can be
PrimeBits == {0, 5, 6, 7}

(***************************************************************************)
(* Program constants.                                                      *)
(***************************************************************************)
\* deflate::MAX_STORED
MAX_STORED == MaxStored

\* the Flush values deflate_stored tells apart: NoFlush, Finish, and the rest
\* (PartialFlush, SyncFlush, FullFlush and Block take the same branches)
FlushModes == {"NoFlush", "SyncFlush", "Finish"}

Min(a, b) == IF a <= b THEN a ELSE b
Max(a, b) == IF a >= b THEN a ELSE b

RECURSIVE Pow2(_)
Pow2(n) == IF n = 0 THEN 1 ELSE 2 * Pow2(n - 1)

\* the input stream's bytes at positions from+1 .. from+n
InputBytes(from, n) == [k \in 1..n |-> from + k]

\* u32::wrapping_sub.  TLC's integers are 32 bits wide and signed, so the
\* wrap is taken modulo 2^31: a wrapped result is still far above every
\* length of the model.
wrapping_sub(a, b) == IF b <= a THEN a - b ELSE (a - b) + 2147483647 + 1

\* `len as u16` and `!len as u16` followed by to_le_bytes()
u16(x) == x % 65536
not_u16(x) == 65535 - (x % 65536)
to_le_bytes(x) == <<x % 256, (x \div 256) % 256>>

(***************************************************************************)
(* The stream and its state as one record, so that the steps of            *)
(* deflate_stored compose as functions on it.                              *)
(***************************************************************************)
Cur ==
    [w_size |-> w_size, window_size |-> window_size, pending_cap |-> pending_cap,
     window |-> window, strstart |-> strstart, block_start |-> block_start,
     insert |-> insert, matches |-> matches, high_water |-> high_water,
     pending |-> pending, bi_buf |-> bi_buf, bi_valid |-> bi_valid,
     avail_in |-> avail_in, total_in |-> total_in, avail_out |-> avail_out,
     out |-> out, adler |-> adler, checked |-> checked, steps |-> steps]

Install(s) ==
    /\ window' = s.window
    /\ strstart' = s.strstart
    /\ block_start' = s.block_start
    /\ insert' = s.insert
    /\ matches' = s.matches
    /\ high_water' = s.high_water
    /\ pending' = s.pending
    /\ bi_buf' = s.bi_buf
    /\ bi_valid' = s.bi_valid
    /\ avail_in' = s.avail_in
    /\ total_in' = s.total_in
    /\ avail_out' = s.avail_out
    /\ out' = s.out
    /\ adler' = s.adler
    /\ checked' = s.checked
    /\ steps' = s.steps

\* records the stream's two lengths as they are after an update
Observe(s) == [s EXCEPT !.steps = Append(@, <<s.avail_in, s.avail_out>>)]

\* window[off .. off+n)
WindowRead(s, off, n) == [k \in 1..n |-> s.window[off + k]]

\* copy `bytes` to window[off ..)
WindowWrite(w, off, bytes) ==
    [i \in 1..Len(w) |->
        IF i > off /\ i <= off + Len(bytes) THEN bytes[i - off] ELSE w[i]]

(***************************************************************************)
(* Collaborators of deflate_stored that live in the deflate module.        *)
(***************************************************************************)
RECURSIVE adler32(_, _)
adler32(a, bytes) ==
    IF bytes = <<>> THEN a
    ELSE LET lo == ((a % 65536) + Head(bytes)) % 65521
             hi == ((a \div 65536) + lo) % 65521
         IN adler32(hi * 65536 + lo, Tail(bytes))

\* read_buf(stream, output, size): take min(avail_in, size) bytes from
\* next_in, update the check value; the bytes read are returned for the
\* caller of read_buf to place at `output`.
read_buf_len(s, size) == Min(s.avail_in, size)

read_buf_bytes(s, size) == InputBytes(s.total_in, read_buf_len(s, size))

read_buf(s, size) ==
    LET len == read_buf_len(s, size)
        bytes == read_buf_bytes(s, size)
    IN IF len = 0 THEN s
       ELSE Observe([s EXCEPT !.avail_in = @ - len,
                              !.adler = adler32(@, bytes),
                              !.checked = @ \o bytes,
                              !.total_in = @ + len])

\* flush_pending(stream): move as many pending bytes as fit to next_out
flush_pending(s) ==
    LET len == Min(Len(s.pending), s.avail_out)
    IN IF len = 0 THEN s
       ELSE Observe([s EXCEPT !.out = @ \o SubSeq(s.pending, 1, len),
                              !.pending = SubSeq(@, len + 1, Len(@)),
                              !.avail_out = @ - len])

\* Pending::rewind(n) and Pending::extend(bytes)
pending_rewind(s, n) == [s EXCEPT !.pending = SubSeq(@, 1, Len(@) - n)]
pending_extend(s, bytes) == [s EXCEPT !.pending = @ \o bytes]

\* send_bits(value, length) followed by bi_windup: the leftover bits and the
\* new ones go out as one or two whole bytes, padded with zero bits
send_bits(s, value, length) ==
    [s EXCEPT !.bi_buf = @ + value * Pow2(s.bi_valid), !.bi_valid = @ + length]

bi_windup(s) ==
    LET bytes == IF s.bi_valid > 8 THEN to_le_bytes(s.bi_buf)
                 ELSE IF s.bi_valid > 0 THEN <<s.bi_buf % 256>>
                 ELSE <<>>
    IN [pending_extend(s, bytes) EXCEPT !.bi_buf = 0, !.bi_valid = 0]

\* zng_tr_stored_block(state, input_block, is_last): the three header bits
\* (BFINAL, then BTYPE = 00 for a stored block), padding to a byte boundary,
\* LEN, NLEN, the payload
zng_tr_stored_block(s, input_block, is_last) ==
    LET s1 == send_bits(s, (IF is_last THEN 1 ELSE 0), 3)
        s2 == bi_windup(s1)
        s3 == pending_extend(s2, to_le_bytes(u16(Len(input_block))))
        s4 == pending_extend(s3, to_le_bytes(not_u16(Len(input_block))))
    IN pending_extend(s4, input_block)

(***************************************************************************)
(* deflate_stored, in the order of the source.                             *)
(***************************************************************************)
\* "smallest worthy block size when not flushing or finishing"
min_block(s) == Min(s.pending_cap - 5, s.w_size)

\* header_bytes that drops the bits that do not fill a byte
header_bytes_rounding_down(s) == (s.bi_valid + 35) \div 8

\* "number of header bytes"
header_bytes(s) == (s.bi_valid + 42) \div 8

\* the bytes in the window that no block holds yet
left_of(s) == Max(0, s.strstart - s.block_start)

\* direct_len that takes all of avail_out as room for the payload
direct_len_ignoring_header(s) ==
    LET len == IF MAX_STORED > left_of(s) + s.avail_in
               THEN left_of(s) + s.avail_in ELSE MAX_STORED
    IN Min(len, s.avail_out)

\* the length of the block the direct path would write
direct_len(s) ==
    LET have == s.avail_out - header_bytes(s)
        len == IF MAX_STORED > left_of(s) + s.avail_in
               THEN left_of(s) + s.avail_in ELSE MAX_STORED
    IN Min(len, have)

\* direct_break without the test for an empty block
direct_break_allowing_empty(s, fl, len) ==
    /\ len < min_block(s)
    /\ \/ fl = "NoFlush"
       \/ len # left_of(s) + s.avail_in

\* direct_break without the test for no-flush
direct_break_ignoring_no_flush(s, fl, len) ==
    /\ len < min_block(s)
    /\ \/ (len = 0 /\ fl # "Finish")
       \/ len # left_of(s) + s.avail_in

\* the direct path gives up on a block of this length
direct_break(s, fl, len) ==
    /\ len < min_block(s)
    /\ \/ (len = 0 /\ fl # "Finish")
       \/ fl = "NoFlush"
       \/ len # left_of(s) + s.avail_in

\* direct_last that never takes a block for the final one
direct_last_never(s, fl, len) == FALSE

\* direct_last for every block written while finishing
direct_last_whenever_finishing(s, fl, len) == fl = "Finish"

direct_last(s, fl, len) == fl = "Finish" /\ len = left_of(s) + s.avail_in

\* write_header with the second length field not complemented
write_header_plain_nlen(s, len, last) ==
    LET s1 == zng_tr_stored_block(s, <<>>, last)
        s2 == pending_rewind(s1, 4)
        s3 == pending_extend(s2, to_le_bytes(u16(len)))
        s4 == pending_extend(s3, to_le_bytes(u16(len)))
    IN flush_pending(s4)

\* an empty stored block in pending, its lengths replaced with len, flushed
write_header(s, len, last) ==
    LET s1 == zng_tr_stored_block(s, <<>>, last)
        s2 == pending_rewind(s1, 4)
        s3 == pending_extend(s2, to_le_bytes(u16(len)))
        s4 == pending_extend(s3, to_le_bytes(not_u16(len)))
    IN flush_pending(s4)

\* copy_window_to_out that also updates the check value with the bytes copied
copy_window_to_out_checksummed(s, left) ==
    Observe([s EXCEPT !.out = @ \o WindowRead(s, s.block_start, left),
                      !.avail_out = wrapping_sub(@, left),
                      !.block_start = @ + left,
                      !.adler = adler32(@, WindowRead(s, s.block_start, left)),
                      !.checked = @ \o WindowRead(s, s.block_start, left)])

\* copy_window_to_out without `block_start += left`
copy_window_to_out_keeping_block_start(s, left) ==
    Observe([s EXCEPT !.out = @ \o WindowRead(s, s.block_start, left),
                      !.avail_out = wrapping_sub(@, left)])

\* copy_window_to_out that moves block_start one byte less than it copied
copy_window_to_out_short_of_one(s, left) ==
    Observe([s EXCEPT !.out = @ \o WindowRead(s, s.block_start, left),
                      !.avail_out = wrapping_sub(@, left),
                      !.block_start = @ + (left - 1)])

\* the block's bytes that come from the window
copy_window_to_out(s, left) ==
    Observe([s EXCEPT !.out = @ \o WindowRead(s, s.block_start, left),
                      !.avail_out = wrapping_sub(@, left),
                      !.block_start = @ + left])

\* the block's bytes that come straight from next_in
copy_input_to_out(s, len) ==
    LET s1 == read_buf(s, len)
    IN Observe([s1 EXCEPT !.out = @ \o read_buf_bytes(s, len),
                          !.avail_out = wrapping_sub(@, len)])

\* one stored block written to next_out
direct_block(s, len, last) ==
    LET left == Min(left_of(s), len)
        s1 == write_header(s, len, last)
        s2 == IF left_of(s) > 0 THEN copy_window_to_out(s1, left) ELSE s1
        rest == IF left_of(s) > 0 THEN len - left ELSE len
    IN IF rest > 0 THEN copy_input_to_out(s2, rest) ELSE s2

\* the loop: [s |-> the stream after it, last |-> whether it wrote the final block]
RECURSIVE direct_loop(_, _)
direct_loop(s, fl) ==
    IF s.avail_out < header_bytes(s) THEN [s |-> s, last |-> FALSE]
    ELSE LET len == direct_len(s)
         IN IF direct_break(s, fl, len) THEN [s |-> s, last |-> FALSE]
            ELSE IF direct_last(s, fl, len)
                 THEN [s |-> direct_block(s, len, TRUE), last |-> TRUE]
                 ELSE direct_loop(direct_block(s, len, FALSE), fl)

\* supplant_history that copies from one byte too early in the input
supplant_history_off_by_one(s) ==
    [s EXCEPT !.matches = 2,
              !.window = WindowWrite(@, 0, InputBytes(s.total_in - s.w_size - 1, s.w_size)),
              !.strstart = s.w_size,
              !.insert = s.w_size]

\* "supplant the previous history"
supplant_history(s) ==
    [s EXCEPT !.matches = 2,
              !.window = WindowWrite(@, 0, InputBytes(s.total_in - s.w_size, s.w_size)),
              !.strstart = s.w_size,
              !.insert = s.w_size]

\* need_slide that never asks for a slide
need_slide_never(s, used) == FALSE

need_slide(s, used) == s.window_size - s.strstart <= used

\* slide_window that counts every slide
slide_window_counting_on(s) ==
    LET ss == s.strstart - s.w_size
    IN [s EXCEPT !.strstart = ss,
                 !.window = WindowWrite(@, 0, WindowRead(s, s.w_size, ss)),
                 !.matches = @ + 1,
                 !.insert = Min(@, ss)]

\* "Slide the window down."
slide_window(s) ==
    LET ss == s.strstart - s.w_size
    IN [s EXCEPT !.strstart = ss,
                 !.window = WindowWrite(@, 0, WindowRead(s, s.w_size, ss)),
                 !.matches = IF @ < 2 THEN @ + 1 ELSE @,
                 !.insert = Min(@, ss)]

\* append_used that counts every appended byte as one to insert
append_used_counting_all(s, used) ==
    [s EXCEPT !.window = WindowWrite(@, s.strstart, InputBytes(s.total_in - used, used)),
              !.strstart = @ + used,
              !.insert = @ + used]

\* the bytes copied directly are appended to the window
append_used(s, used) ==
    [s EXCEPT !.window = WindowWrite(@, s.strstart, InputBytes(s.total_in - used, used)),
              !.strstart = @ + used,
              !.insert = @ + Min(used, s.w_size - @)]

\* the window after `used` bytes of input went directly to next_out
reconcile(s, used) ==
    IF used > 0
    THEN LET s1 == IF used >= s.w_size THEN supplant_history(s)
                   ELSE IF need_slide(s, used)
                        THEN append_used(slide_window(s), used)
                        ELSE append_used(s, used)
         IN [s1 EXCEPT !.block_start = s1.strstart]
    ELSE s

\* update_high_water with min for max
update_high_water_min(s) == [s EXCEPT !.high_water = Min(@, s.strstart)]

update_high_water(s) == [s EXCEPT !.high_water = Max(@, s.strstart)]

\* is_block_done without the test that the window is fully flushed
is_block_done_ignoring_window(s, fl) ==
    /\ fl # "NoFlush"
    /\ fl # "Finish"
    /\ s.avail_in = 0

\* is_block_done without the test for finish
is_block_done_also_finishing(s, fl) ==
    /\ fl # "NoFlush"
    /\ s.avail_in = 0
    /\ s.strstart = s.block_start

\* "If flushing and all input has been consumed, then done."
is_block_done(s, fl) ==
    /\ fl # "NoFlush"
    /\ fl # "Finish"
    /\ s.avail_in = 0
    /\ s.strstart = s.block_start

\* the case the source leaves as todo!("fill window")
fill_unimplemented(s) ==
    /\ s.avail_in > s.window_size - s.strstart
    /\ s.block_start >= s.w_size

\* the remaining input, as far as it fits, goes into the window
fill_window(s) ==
    LET have == Min(s.window_size - s.strstart, s.avail_in)
    IN IF have > 0
       THEN LET s1 == read_buf(s, have)
            IN [s1 EXCEPT !.window = WindowWrite(@, s.strstart, read_buf_bytes(s, have)),
                          !.strstart = @ + have,
                          !.insert = @ + Min(have, s.w_size - @)]
       ELSE s

\* "maximum stored block length that will fit in pending"
pending_have(s) == Min(s.pending_cap - ((s.bi_valid + 42) \div 8), MAX_STORED)

\* whether a block is buffered in pending
pending_cond(s, fl) ==
    LET have == pending_have(s)
        mb == Min(have, s.w_size)
        left == s.strstart - s.block_start
    IN \/ left >= mb
       \/ /\ (left > 0 \/ fl = "Finish")
          /\ fl # "NoFlush"
          /\ s.avail_in = 0
          /\ left <= have

pending_len(s) == Min(s.strstart - s.block_start, pending_have(s))

pending_last(s, fl) ==
    fl = "Finish" /\ s.avail_in = 0 /\ pending_len(s) = s.strstart - s.block_start

\* one stored block, sourced from the window, buffered in pending and flushed
pending_block(s, fl) ==
    LET len == pending_len(s)
        s1 == zng_tr_stored_block(s, WindowRead(s, s.block_start, len), pending_last(s, fl))
    IN flush_pending([s1 EXCEPT !.block_start = @ + len])

\* the whole call: [s |-> the stream after it, status |-> the BlockState returned,
\* or "Panic" where the call does not return]
deflate_stored(s, fl) ==
    LET loop == direct_loop(s, fl)
        used == s.avail_in - loop.s.avail_in
        s1 == update_high_water(reconcile(loop.s, used))
    IN IF loop.last THEN [s |-> s1, status |-> "FinishDone"]
       ELSE IF is_block_done(s1, fl) THEN [s |-> s1, status |-> "BlockDone"]
       ELSE IF fill_unimplemented(s1) THEN [s |-> s1, status |-> "Panic"]
       ELSE LET s2 == update_high_water(fill_window(s1))
            IN IF pending_cond(s2, fl)
               THEN [s |-> pending_block(s2, fl),
                     status |-> IF pending_last(s2, fl) THEN "FinishStarted" ELSE "NeedMore"]
               ELSE [s |-> s2, status |-> "NeedMore"]

(***************************************************************************)
(* The stream's life.                                                      *)
(***************************************************************************)
\* the stream as deflateInit leaves it, with `bits` leftover bits primed
FreshStream(w, cap, bits) ==
    [w_size |-> w, window_size |-> 2 * w, pending_cap |-> cap,
     window |-> [i \in 1..(2 * w) |-> 0], strstart |-> 0, block_start |-> 0,
     insert |-> 0, matches |-> 0, high_water |-> 0,
     pending |-> <<>>, bi_buf |-> Pow2(bits) - 1, bi_valid |-> bits,
     avail_in |-> 0, total_in |-> 0, avail_out |-> 0,
     out |-> <<>>, adler |-> 1, checked |-> <<>>, steps |-> <<>>]

\* the caller's z_stream once deflateInit_ has succeeded on it
DeflateStream ==
    [zalloc |-> "default", zfree |-> "default", opaque |-> "null",
     state |-> "deflate"]

\* no entry point has been called since the stream was initialised
NoCall ==
    [fn |-> "none", args |-> <<>>, ret |-> "none", value |-> {},
     written |-> <<>>, engine |-> FALSE, early |-> {},
     before |-> DeflateStream, life |-> "live"]

Boundary == <<allocator, z_stream, call>>

Stored ==
    <<w_size, window_size, pending_cap, prime_bits, window, strstart,
      block_start, insert, matches, high_water, pending, bi_buf, bi_valid,
      avail_in, total_in, avail_out, out, adler, checked, flush, status, steps>>

\* the compression stream right after deflateInit, with `bits` primed
StoredInit(w, cap, bits) ==
    /\ w_size = w
    /\ window_size = 2 * w
    /\ pending_cap = cap
    /\ prime_bits = bits
    /\ window = FreshStream(w, cap, bits).window
    /\ strstart = 0
    /\ block_start = 0
    /\ insert = 0
    /\ matches = 0
    /\ high_water = 0
    /\ pending = <<>>
    /\ bi_valid = bits
    /\ bi_buf = FreshStream(w, cap, bits).bi_buf
    /\ avail_in = 0
    /\ total_in = 0
    /\ avail_out = 0
    /\ out = <<>>
    /\ adler = 1
    /\ checked = <<>>
    /\ flush = "NoFlush"
    /\ status = "Init"
    /\ steps = <<>>

Init ==
    /\ \E w \in WSizes, cap \in PendingCaps, bits \in PrimeBits :
          StoredInit(w, cap, bits)
    /\ allocator = "rust-allocator"
    /\ z_stream = DeflateStream
    /\ call = NoCall

Config == <<w_size, window_size, pending_cap, prime_bits>>

Running == status \in {"Init", "NeedMore", "BlockDone"}

\* deflate() hands the stream to deflate_stored: the caller has added n bytes
\* to the input and offers a buffer with room for m bytes of output; the
\* output of the call before has been taken and nothing is pending.
Call(fl, n, m) ==
    /\ Running
    /\ pending = <<>>
    /\ steps = <<>>
    /\ total_in + avail_in + n <= MaxInput
    /\ \E r \in {deflate_stored(Observe([Cur EXCEPT !.avail_in = @ + n,
                                                    !.avail_out = m]), fl)} :
          /\ Install(r.s)
          /\ status' = r.status
          /\ flush' = fl
    /\ UNCHANGED <<Config, Boundary>>

\* Between two calls the caller takes the output: it makes room until
\* nothing is pending (deflate() flushes what is pending before anything
\* else) and puts the output buffer aside, so that the next call names its own.
TakeOutput ==
    /\ status # "Panic"
    /\ steps # <<>>
    /\ out' = out \o pending
    /\ pending' = <<>>
    /\ avail_out' = 0
    /\ steps' = <<>>
    /\ UNCHANGED <<Config, window, strstart, block_start, insert, matches,
                   high_water, bi_buf, bi_valid, avail_in, total_in,
                   adler, checked, flush, status, Boundary>>

Next ==
    \/ \E fl \in FlushModes, n \in 0..MaxInput, m \in 0..MaxOut : Call(fl, n, m)
    \/ TakeOutput

Spec == Init /\ [][Next]_vars

(***************************************************************************)
(* A caller that feeds the input in chunks with no-flush, passes finish    *)
(* with the last chunk, and from then on calls again with finish and no    *)
(* new input, each time with room for at least one byte of output.         *)
(***************************************************************************)
ChunkCall(n, m) == flush # "Finish" /\ Call("NoFlush", n, m)

FinishCall(n, m) == flush # "Finish" /\ Call("Finish", n, m)

FinishRetry(m) == flush = "Finish" /\ Call("Finish", 0, m)

FinishRetries == \E m \in 1..MaxOut : FinishRetry(m)

NextChunked ==
    \/ \E n \in 0..MaxInput, m \in 1..MaxOut : ChunkCall(n, m)
    \/ \E n \in 0..MaxInput, m \in 1..MaxOut : FinishCall(n, m)
    \/ FinishRetries
    \/ TakeOutput

SpecChunked == Init /\ [][NextChunked]_vars

(***************************************************************************)
(* One call seen from inside.  What deflate_stored did between its entry   *)
(* and its return is kept, until the caller takes the output, in the       *)
(* record of the latest call:                                              *)
(*   direct       the blocks the loop wrote to next_out, in order, each    *)
(*                with what the iteration found and what it wrote          *)
(*   used         the input bytes the loop copied to next_out              *)
(*   found        strstart and block_start when the loop was left          *)
(*   reconciled   the stream after the window was reconciled               *)
(*   slid         whether the reconciliation slid the window               *)
(*   topped_up    whether the call went on to top up the window            *)
(*   buffered     the block buffered in pending, if one was                *)
(***************************************************************************)
\* the iteration that writes a block of `len` bytes from stream s
direct_iteration(s, fl, len) ==
    LET after == direct_block(s, len, direct_last(s, fl, len))
    IN [len |-> len,
        min_block |-> min_block(s),
        bi_valid |-> s.bi_valid,
        have |-> header_bytes(s),
        avail_out |-> s.avail_out,
        work |-> left_of(s) + s.avail_in,
        last |-> direct_last(s, fl, len),
        written |-> SubSeq(after.out, Len(s.out) + 1, Len(after.out)),
        pending |-> after.pending]

\* the iterations of the loop that wrote a block
RECURSIVE direct_iterations(_, _)
direct_iterations(s, fl) ==
    IF s.avail_out < header_bytes(s) THEN <<>>
    ELSE LET len == direct_len(s)
         IN IF direct_break(s, fl, len) THEN <<>>
            ELSE IF direct_last(s, fl, len)
                 THEN <<direct_iteration(s, fl, len)>>
                 ELSE <<direct_iteration(s, fl, len)>>
                        \o direct_iterations(direct_block(s, len, FALSE), fl)

\* the block the pending path buffers from stream s
pending_iteration(s, fl) ==
    [len |-> pending_len(s),
     min_block |-> min_block(s),
     bi_valid |-> s.bi_valid,
     last |-> pending_last(s, fl),
     avail_in |-> s.avail_in,
     work |-> s.strstart - s.block_start]

\* what a call on stream s does on its way
inside(s, fl) ==
    LET loop == direct_loop(s, fl)
        used == s.avail_in - loop.s.avail_in
        s1 == update_high_water(reconcile(loop.s, used))
        returned == loop.last \/ is_block_done(s1, fl)
        s2 == update_high_water(fill_window(s1))
    IN [fn |-> "deflate_stored",
        entry |-> [avail_in |-> s.avail_in, avail_out |-> s.avail_out,
                   work |-> left_of(s) + s.avail_in, out |-> s.out],
        direct |-> direct_iterations(s, fl),
        loop_out |-> loop.s.out,
        loop_last |-> loop.last,
        used |-> used,
        found |-> [strstart |-> loop.s.strstart,
                   block_start |-> loop.s.block_start,
                   insert |-> loop.s.insert,
                   matches |-> loop.s.matches,
                   window |-> loop.s.window],
        reconciled |-> [strstart |-> s1.strstart, block_start |-> s1.block_start,
                        insert |-> s1.insert, matches |-> s1.matches,
                        window |-> s1.window, avail_in |-> s1.avail_in,
                        total_in |-> s1.total_in, out |-> s1.out,
                        pending |-> s1.pending],
        slid |-> used > 0 /\ s1.strstart < loop.s.strstart + used,
        topped_up |-> ~returned /\ ~fill_unimplemented(s1),
        buffered |-> IF ~returned /\ ~fill_unimplemented(s1) /\ pending_cond(s2, fl)
                     THEN <<pending_iteration(s2, fl)>> ELSE <<>>]

\* Call, with what happened inside it kept in `call`
ObservedCall(fl, n, m) ==
    /\ Running
    /\ pending = <<>>
    /\ steps = <<>>
    /\ total_in + avail_in + n <= MaxInput
    /\ \E s \in {Observe([Cur EXCEPT !.avail_in = @ + n, !.avail_out = m])} :
          /\ Install(deflate_stored(s, fl).s)
          /\ status' = deflate_stored(s, fl).status
          /\ flush' = fl
          /\ call' = inside(s, fl)
    /\ UNCHANGED <<Config, allocator, z_stream>>

\* TakeOutput, after which the call is no longer looked into
ObservedTakeOutput ==
    /\ status # "Panic"
    /\ steps # <<>>
    /\ out' = out \o pending
    /\ pending' = <<>>
    /\ avail_out' = 0
    /\ steps' = <<>>
    /\ call' = NoCall
    /\ UNCHANGED <<Config, window, strstart, block_start, insert, matches,
                   high_water, bi_buf, bi_valid, avail_in, total_in,
                   adler, checked, flush, status, allocator, z_stream>>

NextObserved ==
    \/ \E fl \in FlushModes, n \in 0..MaxInput, m \in 0..MaxOut :
          ObservedCall(fl, n, m)
    \/ ObservedTakeOutput

SpecObserved == Init /\ [][NextObserved]_vars

(***************************************************************************)
(* The stored-block wire format, read back the way an inflater reads it    *)
(* (RFC 1951, 3.2.4): BFINAL, BTYPE = 00, skip to a byte boundary, LEN,    *)
(* NLEN, LEN bytes of payload.                                             *)
(***************************************************************************)
Bit(x, k) == (x \div Pow2(k)) % 2

RECURSIVE Xor(_, _, _)
Xor(a, b, bits) ==
    IF bits = 0 THEN 0
    ELSE ((a + b) % 2) + 2 * Xor(a \div 2, b \div 2, bits - 1)

\* Reads blocks from byte `pos` (1-based), bit `bit` of `bytes`.
\*   blocks: the blocks read whole, each [final, len, nlen, payload]
\*   whole:  the bytes end exactly where a block ends
\*   ended:  a block with BFINAL set was read (nothing after it is read)
\*   rest:   the bytes after the last block read
RECURSIVE Inflate(_, _, _, _)
Inflate(bytes, pos, bit, acc) ==
    IF pos > Len(bytes)
    THEN [blocks |-> acc, whole |-> TRUE, ended |-> FALSE, rest |-> <<>>]
    ELSE LET wide == bit + 3 > 8
             word == bytes[pos] + (IF wide /\ pos < Len(bytes) THEN 256 * bytes[pos + 1] ELSE 0)
             at == IF wide THEN pos + 2 ELSE pos + 1
             len == bytes[at] + 256 * bytes[at + 1]
             nlen == bytes[at + 2] + 256 * bytes[at + 3]
             cut == [blocks |-> acc, whole |-> FALSE, ended |-> FALSE,
                     rest |-> SubSeq(bytes, pos, Len(bytes))]
         IN IF Len(bytes) < at + 3 THEN cut
            ELSE IF Len(bytes) < at + 3 + len THEN cut
            ELSE LET blk == [final |-> Bit(word, bit) = 1,
                             btype |-> Bit(word, bit + 1) + 2 * Bit(word, bit + 2),
                             len |-> len, nlen |-> nlen,
                             payload |-> SubSeq(bytes, at + 4, at + 3 + len)]
                     next == at + 4 + len
                 IN IF blk.final
                    THEN [blocks |-> Append(acc, blk), whole |-> next > Len(bytes),
                          ended |-> TRUE, rest |-> SubSeq(bytes, next, Len(bytes))]
                    ELSE Inflate(bytes, next, 0, Append(acc, blk))

\* what an inflater that skips the primed bits reads from `bytes`
Inflated(bytes) == Inflate(bytes, 1, prime_bits, <<>>)

RECURSIVE Payloads(_)
Payloads(blocks) ==
    IF blocks = <<>> THEN <<>> ELSE Head(blocks).payload \o Payloads(Tail(blocks))

\* everything emitted so far: written to next_out, or still buffered
Emitted == out \o pending

Finished == status \in {"FinishStarted", "FinishDone"}

\* all the input the caller has supplied
Supplied == total_in + avail_in

(***************************************************************************)
(* Machine words.  A c_ulong, u32 or u64 is the set of the positions of    *)
(* its one bits, so that a word keeps its width whatever its value; a      *)
(* c_long is its two's complement pattern.                                 *)
(***************************************************************************)
ToBits(n) == {i \in 0..30 : Bit(n, i) = 1}

RECURSIVE FromBits(_)
FromBits(w) ==
    IF w = {} THEN 0
    ELSE LET i == CHOOSE j \in w : TRUE IN Pow2(i) + FromBits(w \ {i})

XorBits(a, b) == (a \ b) \cup (b \ a)
ShiftRight(w) == {i - 1 : i \in w \ {0}}
as_u32(w) == w \cap (0..31)
NotU32(w) == (0..31) \ w

\* a c_long (64 bits) converted with `as u64`
as_u64(n) == IF n >= 0 THEN ToBits(n) ELSE (0..63) \ ToBits((-n) - 1)

(***************************************************************************)
(* The checksum engine (zlib_rs::crc32, crc32_combine, adler32_combine;    *)
(* adler32 is above).  CRC-32 is the reflected polynomial 0xEDB88320, one  *)
(* bit at a time; combining is zlib's multiplication modulo the polynomial.*)
(***************************************************************************)
POLY == {31, 30, 29, 27, 26, 24, 23, 21, 20, 19, 15, 9, 8, 5}

\* multiply by x modulo the polynomial
TimesX(w) == IF 0 \in w THEN XorBits(ShiftRight(w), POLY) ELSE ShiftRight(w)

\* (zero stays zero; testing for it also makes TLC compute w at every step
\* instead of nesting the steps)
RECURSIVE TimesXn(_, _)
TimesXn(w, n) == IF n = 0 \/ w = {} THEN w ELSE TimesXn(TimesX(w), n - 1)

\* the register after the bytes: the register after all but the last byte,
\* with the last byte added in and shifted out
RECURSIVE crc32_update(_, _)
crc32_update(c, bytes) ==
    IF bytes = <<>> THEN c
    ELSE TimesXn(XorBits(crc32_update(c, SubSeq(bytes, 1, Len(bytes) - 1)),
                         ToBits(bytes[Len(bytes)])), 8)

zlib_rs_crc32(start, bytes) == NotU32(crc32_update(NotU32(start), bytes))

\* <<b, b*x, ..., b*x^n>> modulo the polynomial
RECURSIVE x_multiples(_, _)
x_multiples(b, n) ==
    IF n = 0 THEN <<b>>
    ELSE LET t == x_multiples(b, n - 1) IN Append(t, TimesX(t[Len(t)]))

\* multmodp(a, b): a(x) * b(x) modulo the polynomial, a # 0.  The loop goes
\* down from bit 31 of a, multiplying b by x at every bit and adding b into
\* the product at every one bit of a: the product is the sum (xor) of
\* b * x^(31 - m) over the one bits m of a.
multmodp(a, b) ==
    LET t == x_multiples(b, 31)
    IN {i \in 0..31 : Cardinality({m \in a : i \in t[(31 - m) + 1]}) % 2 = 1}

\* X2N_TABLE[n] = x^(2^n) modulo the polynomial
RECURSIVE x2n_table(_)
x2n_table(n) ==
    IF n = 0 THEN <<{30}>>
    ELSE LET t == x2n_table(n - 1)
         IN Append(t, multmodp(t[Len(t)], t[Len(t)]))

X2N_TABLE == x2n_table(31)

\* x2nmodp(n, k): x^(n * 2^k) modulo the polynomial
RECURSIVE x2nmodp_from(_, _, _)
x2nmodp_from(n, k, p) ==
    IF n = {} \/ p = {} THEN p
    ELSE x2nmodp_from(ShiftRight(n), k + 1,
                      IF 0 \in n THEN multmodp(X2N_TABLE[(k % 32) + 1], p)
                      ELSE p)

x2nmodp(n, k) == x2nmodp_from(n, k, {31})

zlib_rs_crc32_combine(crc1, crc2, len2) ==
    XorBits(multmodp(x2nmodp(len2, 3), crc1), crc2)

\* the two 16-bit sums of an Adler-32 value
Low16(w) == FromBits(w \cap (0..15))
High16(w) == FromBits({i - 16 : i \in w \cap (16..31)})
JoinHalves(high, low) == ToBits(low) \cup {i + 16 : i \in ToBits(high)}

zlib_rs_adler32_combine(adler1, adler2, len2) ==
    LET rem == len2 % 65521
        sum1 == Low16(adler1)
        sum2 == (rem * sum1) % 65521
        s1 == sum1 + Low16(adler2) + 65521 - 1
        s2 == sum2 + High16(adler1) + High16(adler2) + 65521 - rem
        s1a == IF s1 >= 65521 THEN s1 - 65521 ELSE s1
        s1b == IF s1a >= 65521 THEN s1a - 65521 ELSE s1a
        s2a == IF s2 >= 2 * 65521 THEN s2 - 2 * 65521 ELSE s2
        s2b == IF s2a >= 65521 THEN s2a - 65521 ELSE s2a
    IN JoinHalves(s2b, s1b)

(***************************************************************************)
(* The C boundary (src/libz-rs-sys/src/lib.rs).                            *)
(*                                                                         *)
(* A pointer argument is "null" or points to an object that satisfies the  *)
(* entry point's safety contract; the stream pointer is "null" or "strm",  *)
(* the caller's one z_stream.  An entry point maps its arguments `a` and   *)
(* the z_stream `s` as it is at the call to the set of its outcomes:       *)
(*   ret      the status returned ("Panic", "Abort": the call does not     *)
(*            return; "value": the function returns a number, in value),   *)
(*   value    the number returned, as a word,                              *)
(*   written  what the call wrote through destLen,                         *)
(*   engine   whether the call reached zlib_rs,                            *)
(*   early    the other pointer arguments turned into a reference or a     *)
(*            slice before the stream pointer was validated,               *)
(*   stream   the z_stream after the call.                                 *)
(* The latest call is kept in `call` with its function, its arguments, the *)
(* z_stream as it was before, and where the stream is in its life after    *)
(* the call: "fresh" (never initialised), "live" (since an init that       *)
(* returned Ok) or "ended" (since an end that went through).               *)
(***************************************************************************)
MaxBuf == 2

ByteValues == {0, 1, 255}

RECURSIVE SeqsUpTo(_)
SeqsUpTo(n) ==
    IF n = 0 THEN {<<>>}
    ELSE LET shorter == SeqsUpTo(n - 1)
         IN shorter \cup {Append(q, b) : q \in {r \in shorter : Len(r) = n - 1},
                                        b \in ByteValues}

Buffers == SeqsUpTo(MaxBuf)

AllocatorFeatures == {"c-allocator", "rust-allocator", "none"}

DEFAULT_ZALLOC == IF allocator = "none" THEN "none" ELSE "default"
DEFAULT_ZFREE == IF allocator = "none" THEN "none" ELSE "default"

ReturnCodes ==
    {"Ok", "StreamEnd", "NeedDict", "StreamError", "DataError", "MemoryError",
     "BufferError"}

StreamPointers == {"null", "strm"}
Pointers == {"null", "valid"}

\* a pointer whose target the model looks at (a buffer, a version string,
\* destLen) is the empty set when null and {target} otherwise
NullPtr == {}
PointerTo(x) == {x}
Pointee(p) == CHOOSE x \in p : TRUE
EnumArgs == {"defined", "undefined"}

\* `dest`: the bytes a one-shot call leaves in the caller's destination
Outcome(ret, engine, s) ==
    [ret |-> ret, value |-> {}, written |-> <<>>, engine |-> engine,
     early |-> {}, stream |-> s, dest |-> <<>>]

Rejected(s) == Outcome("StreamError", FALSE, s)

\* the call goes on into zlib_rs, which returns one of `rets`
Engine(rets, s) == {Outcome(r, TRUE, s) : r \in rets}

\* InflateStream::from_stream_mut, DeflateStream::from_stream_mut and
\* from_stream_ref: the stream behind the pointer, if there is one
from_stream_mut(p, s) ==
    /\ p # "null"
    /\ s.zalloc # "none"
    /\ s.zfree # "none"
    /\ s.state # "null"

\* zlib_rs::inflate::end, zlib_rs::deflate::end: the state is released
end(s) == [s EXCEPT !.state = "null"]

\* zlib_rs::inflate::init, zlib_rs::deflate::init: on success the stream
\* owns a new state
init(s, family) ==
    IF s.zalloc = "none" \/ s.zfree = "none" THEN Engine({"StreamError"}, s)
    ELSE Engine({"StreamError", "MemoryError"}, s)
         \cup Engine({"Ok"}, [s EXCEPT !.state = family])

\* a function that returns a number rather than a status
Returns(value, engine, s) ==
    {[Outcome("value", engine, s) EXCEPT !.value = value]}

\* crc32(crc, buf, len)
crc32_on_null_as_empty(a, s) ==
    Returns(zlib_rs_crc32(as_u32(a.crc),
                          IF a.buf = NullPtr THEN <<>>
                          ELSE SubSeq(Pointee(a.buf), 1, a.len)), TRUE, s)

crc32(a, s) ==
    IF a.buf = NullPtr THEN Returns({}, FALSE, s)
    ELSE Returns(zlib_rs_crc32(as_u32(a.crc), SubSeq(Pointee(a.buf), 1, a.len)),
                 TRUE, s)

\* crc32_combine(crc1, crc2, len2)
crc32_combine(a, s) ==
    Returns(zlib_rs_crc32_combine(as_u32(a.crc1), as_u32(a.crc2),
                                  as_u64(a.len2)), TRUE, s)

\* adler32(adler, buf, len)
libz_adler32(a, s) ==
    IF a.buf = NullPtr THEN Returns({0}, FALSE, s)
    ELSE Returns(ToBits(adler32(FromBits(as_u32(a.adler)),
                                SubSeq(Pointee(a.buf), 1, a.len))), TRUE, s)

\* adler32_combine(adler1, adler2, len2)
adler32_combine_swapped(a, s) ==
    IF a.len2 >= 0
    THEN Returns(zlib_rs_adler32_combine(as_u32(a.adler2), as_u32(a.adler1),
                                         a.len2), TRUE, s)
    ELSE Returns(0..31, FALSE, s)

\* adler32_combine that takes a length of zero for a negative one
adler32_combine_rejecting_zero(a, s) ==
    IF a.len2 > 0
    THEN Returns(zlib_rs_adler32_combine(as_u32(a.adler1), as_u32(a.adler2),
                                         a.len2), TRUE, s)
    ELSE Returns(0..31, FALSE, s)

adler32_combine_unchecked(a, s) ==
    Returns(zlib_rs_adler32_combine(as_u32(a.adler1), as_u32(a.adler2),
                                    IF a.len2 >= 0 THEN a.len2 ELSE -a.len2),
            TRUE, s)

adler32_combine(a, s) ==
    IF a.len2 >= 0
    THEN Returns(zlib_rs_adler32_combine(as_u32(a.adler1), as_u32(a.adler2),
                                         a.len2), TRUE, s)
    ELSE Returns(0..31, FALSE, s)

(***************************************************************************)
(* The one-shot engines, zlib_rs::deflate::compress and                    *)
(* zlib_rs::inflate::uncompress, on inputs short enough to have no         *)
(* repeated string: the zlib container (RFC 1950) around one final block,  *)
(* stored at level 0 and coded with the fixed Huffman code otherwise       *)
(* (RFC 1951, 3.2.6).  A bit string is a sequence of 0 and 1 in the order  *)
(* the bits go out; bytes take them from the least significant bit up.     *)
(***************************************************************************)
\* the n low bits of v, most significant first (the order of Huffman codes)
BitsMSB(v, n) == [k \in 1..n |-> (v \div Pow2(n - k)) % 2]

\* the n low bits of v, least significant first (every other field)
BitsLSB(v, n) == [k \in 1..n |-> (v \div Pow2(k - 1)) % 2]

RECURSIVE Concat(_)
Concat(seqs) == IF seqs = <<>> THEN <<>> ELSE Head(seqs) \o Concat(Tail(seqs))

\* the value of a bit string read least significant first
RECURSIVE ValueLSB(_)
ValueLSB(bits) == IF bits = <<>> THEN 0 ELSE Head(bits) + 2 * ValueLSB(Tail(bits))

\* the value of a bit string read most significant first
RECURSIVE ValueMSB(_)
ValueMSB(bits) ==
    IF bits = <<>> THEN 0
    ELSE bits[Len(bits)] + 2 * ValueMSB(SubSeq(bits, 1, Len(bits) - 1))

\* bits to bytes, the last byte padded with zero bits
PackBits(bits) ==
    [k \in 1..((Len(bits) + 7) \div 8) |->
        ValueLSB(SubSeq(bits, 8 * (k - 1) + 1, Min(8 * k, Len(bits))))]

UnpackBits(bytes) == Concat([k \in 1..Len(bytes) |-> BitsLSB(bytes[k], 8)])

\* the fixed Huffman code of a literal byte, and of the end of the block
fixed_code(lit) ==
    IF lit < 144 THEN BitsMSB(48 + lit, 8) ELSE BitsMSB(400 + (lit - 144), 9)

END_BLOCK == BitsMSB(0, 7)

\* one final block with the fixed code: BFINAL = 1, BTYPE = 01
fixed_block(input) ==
    PackBits(<<1, 1, 0>> \o Concat([k \in 1..Len(input) |-> fixed_code(input[k])])
             \o END_BLOCK)

\* one final stored block: BFINAL = 1, BTYPE = 00
final_stored_block(input) ==
    <<1>> \o to_le_bytes(u16(Len(input))) \o to_le_bytes(not_u16(Len(input)))
          \o input

\* the two header bytes of the zlib container for a compression level
zlib_header(level) ==
    LET flags == IF level < 2 THEN 0 ELSE IF level < 6 THEN 1
                 ELSE IF level = 6 THEN 2 ELSE 3
        header == (120 * 256) + (flags * 64)
        checked_header == header + (31 - (header % 31))
    IN <<checked_header \div 256, checked_header % 256>>

\* a check value as the container ends with it, most significant byte first
be_bytes(x) ==
    <<x \div 16777216, (x \div 65536) % 256, (x \div 256) % 256, x % 256>>

\* DeflateConfig::new(level): Z_DEFAULT_COMPRESSION stands for level 6
config_level(level) == IF level = -1 THEN 6 ELSE level

\* the whole stream zlib_rs::deflate::compress makes of `input`
compressed_stream(input, level) ==
    zlib_header(config_level(level))
        \o (IF config_level(level) = 0 THEN final_stored_block(input)
            ELSE fixed_block(input))
        \o be_bytes(adler32(1, input))

\* zlib_rs::deflate::compress(output, input, config): what fits in the
\* output, and BufError when not all of the stream does
zlib_rs_compress(cap, input, level) ==
    LET stream == compressed_stream(input, level)
    IN IF Len(stream) <= cap THEN [err |-> "Ok", output |-> stream]
       ELSE [err |-> "BufferError", output |-> SubSeq(stream, 1, cap)]

\* the literals of a block in the fixed code, from bit `at` (1-based) on:
\* [ok, bytes, next]; a length code or a cut-off code is not ok
RECURSIVE fixed_literals(_, _, _)
fixed_literals(bits, at, acc) ==
    LET v7 == ValueMSB(SubSeq(bits, at, at + 6))
        v8 == ValueMSB(SubSeq(bits, at, at + 7))
        v9 == ValueMSB(SubSeq(bits, at, at + 8))
        bad == [ok |-> FALSE, bytes |-> acc, next |-> at]
    IN IF at + 6 > Len(bits) THEN bad
       ELSE IF v7 = 0 THEN [ok |-> TRUE, bytes |-> acc, next |-> at + 7]
       ELSE IF v7 <= 23 THEN bad
       ELSE IF at + 7 > Len(bits) THEN bad
       ELSE IF v8 >= 48 /\ v8 <= 191
            THEN fixed_literals(bits, at + 8, Append(acc, v8 - 48))
       ELSE IF v8 >= 192 /\ v8 <= 199 THEN bad
       ELSE IF at + 8 > Len(bits) THEN bad
       ELSE fixed_literals(bits, at + 9, Append(acc, 144 + (v9 - 400)))

\* the payload of a stream of one final block: [ok, bytes]
inflated_stream(input) ==
    LET body == SubSeq(input, 3, Len(input))
        bits == UnpackBits(body)
        btype == ValueLSB(SubSeq(bits, 2, 3))
        len == body[2] + (256 * body[3])
        nlen == body[4] + (256 * body[5])
        fixed == fixed_literals(bits, 4, <<>>)
        data == IF btype = 0 THEN SubSeq(body, 6, 5 + len) ELSE fixed.bytes
        trailer == IF btype = 0 THEN 6 + len ELSE ((fixed.next + 6) \div 8) + 1
        bad == [ok |-> FALSE, bytes |-> <<>>]
    IN IF Len(input) < 3 THEN bad
       ELSE IF input[1] # 120 \/ ((input[1] * 256) + input[2]) % 31 # 0
               \/ (input[2] \div 32) % 2 = 1 THEN bad
       ELSE IF bits[1] # 1 \/ btype \notin {0, 1} THEN bad
       ELSE IF btype = 0 /\ (Len(body) < 5 \/ len + nlen # 65535
                             \/ Len(body) < 5 + len) THEN bad
       ELSE IF btype = 1 /\ ~fixed.ok THEN bad
       ELSE IF Len(body) < trailer + 3 THEN bad
       ELSE IF SubSeq(body, trailer, trailer + 3) # be_bytes(adler32(1, data))
            THEN bad
       ELSE [ok |-> TRUE, bytes |-> data]

\* zlib_rs::inflate::uncompress(output, input, config)
zlib_rs_uncompress(cap, input) ==
    LET r == inflated_stream(input)
    IN IF ~r.ok THEN [err |-> "DataError", output |-> <<>>]
       ELSE IF Len(r.bytes) <= cap THEN [err |-> "Ok", output |-> r.bytes]
       ELSE [err |-> "BufferError", output |-> SubSeq(r.bytes, 1, cap)]

\* the outcome of a one-shot call whose engine returned r
one_shot_of(r, s) ==
    {[Outcome(r.err, TRUE, s) EXCEPT !.written = <<Len(r.output)>>,
                                    !.dest = r.output]}


\* zlib_rs::inflate::uncompress and zlib_rs::deflate::compress: the part of
\* the output buffer that was filled, and a status
one_shot(len, s) ==
    {[Outcome(err, TRUE, s) EXCEPT !.written = <<produced>>] :
        err \in {"Ok", "MemoryError", "BufferError", "DataError"},
        produced \in 0..len}

\* the engine behind uncompress: where the caller has named the bytes at
\* source (a.input), what those bytes inflate to
inflate_uncompress(a, s) ==
    IF "input" \in DOMAIN a
    THEN one_shot_of(zlib_rs_uncompress(Pointee(a.destLen), a.input), s)
    ELSE one_shot(Pointee(a.destLen), s)

\* uncompress(dest, destLen, source, sourceLen)
uncompress(a, s) ==
    IF a.destLen = NullPtr THEN {Rejected(s)}
    ELSE IF a.dest = "null" THEN {Rejected(s)}
    ELSE IF a.source = "null" THEN {Rejected(s)}
    ELSE inflate_uncompress(a, s)

\* inflate that turns an undefined flush value down, as deflate does
inflate_checking_flush(a, s) ==
    IF from_stream_mut(a.strm, s)
    THEN IF a.flush = "defined" THEN Engine(ReturnCodes, s)
         ELSE {Rejected(s)}
    ELSE {Rejected(s)}

\* inflate(strm, flush): an undefined flush value becomes the default
inflate(a, s) ==
    IF from_stream_mut(a.strm, s) THEN Engine(ReturnCodes, s)
    ELSE {Rejected(s)}

inflateEnd(a, s) ==
    IF from_stream_mut(a.strm, s) THEN Engine({"Ok"}, end(s))
    ELSE {Rejected(s)}

\* todo!("inflateBack is not implemented yet")
inflateBackInit_(a, s) == {Outcome("Panic", FALSE, s)}
inflateBack(a, s) == {Outcome("Panic", FALSE, s)}
inflateBackEnd(a, s) == {Outcome("Panic", FALSE, s)}

\* inflateCopy(dest, source)
inflateCopy(a, s) ==
    IF a.dest = "null" THEN {Rejected(s)}
    ELSE IF from_stream_mut(a.strm, s) THEN Engine({"Ok", "MemoryError"}, s)
    ELSE {Rejected(s)}

\* inflateMark(strm): zlib_rs::inflate::mark returns -65536 outside of a
\* block, -65536 + n in a stored block, (bits back << 16) + n in a code
inflateMark(a, s) ==
    IF from_stream_mut(a.strm, s)
    THEN {[Outcome("value", TRUE, s) EXCEPT !.value = v] :
             v \in {16..63, {0} \cup (16..63), {0, 16}}}
    ELSE Returns({63}, FALSE, s)

inflateSync(a, s) ==
    IF from_stream_mut(a.strm, s) THEN Engine(ReturnCodes, s)
    ELSE {Rejected(s)}

\* is_version_compatible(version, stream_size); LIBZ_RS_SYS_VERSION is
\* "1.3.0-zlib-rs-..."
first_byte(version) ==
    IF Pointee(version) = <<>> THEN "NUL" ELSE Pointee(version)[1]

is_version_compatible_any_size(version, stream_size) ==
    IF version = NullPtr THEN FALSE
    ELSE IF first_byte(version) # "1" THEN FALSE
    ELSE TRUE

is_version_compatible(version, stream_size) ==
    IF version = NullPtr THEN FALSE
    ELSE IF first_byte(version) # "1" THEN FALSE
    ELSE stream_size = "size_of::<z_stream>()"

\* the allocator defaulting of inflateInit2, deflateInit_ and deflateInit2_
default_allocators_together(s) ==
    IF s.zalloc = "none"
    THEN [s EXCEPT !.zalloc = DEFAULT_ZALLOC, !.opaque = "null",
                   !.zfree = DEFAULT_ZFREE]
    ELSE s

default_allocators(s) ==
    LET s1 == IF s.zalloc = "none"
              THEN [s EXCEPT !.zalloc = DEFAULT_ZALLOC, !.opaque = "null"]
              ELSE s
    IN IF s1.zfree = "none" THEN [s1 EXCEPT !.zfree = DEFAULT_ZFREE] ELSE s1

inflateInit2(a, s) ==
    IF a.strm = "null" THEN {Rejected(s)}
    ELSE init(default_allocators(s), "inflate")

inflateInit2_(a, s) ==
    IF ~is_version_compatible(a.version, a.stream_size)
    THEN {Outcome("VersionError", FALSE, s)}
    ELSE inflateInit2(a, s)

\* inflateInit_ is inflateInit2_ with the default window bits
inflateInit_(a, s) == inflateInit2_(a, s)

inflatePrime(a, s) ==
    IF from_stream_mut(a.strm, s) THEN Engine({"Ok", "StreamError"}, s)
    ELSE {Rejected(s)}

inflateReset(a, s) ==
    IF from_stream_mut(a.strm, s) THEN Engine({"Ok", "StreamError"}, s)
    ELSE {Rejected(s)}

inflateReset2(a, s) ==
    IF from_stream_mut(a.strm, s) THEN Engine({"Ok", "StreamError"}, s)
    ELSE {Rejected(s)}

\* inflateSetDictionary(strm, dictionary, dictLength): a null dictionary is
\* the empty one
inflateSetDictionary(a, s) ==
    IF ~from_stream_mut(a.strm, s) THEN {Rejected(s)}
    ELSE Engine({"Ok", "StreamError", "DataError"}, s)

\* inflateGetHeader(strm, head)
inflateGetHeader(a, s) ==
    IF from_stream_mut(a.strm, s) THEN Engine({"Ok", "StreamError"}, s)
    ELSE {Rejected(s)}

\* todo!()
inflateCodesUsed(a, s) == {Outcome("Panic", FALSE, s)}

\* deflate(strm, flush)
deflate(a, s) ==
    IF from_stream_mut(a.strm, s)
    THEN IF a.flush = "defined" THEN Engine(ReturnCodes, s)
         ELSE {Rejected(s)}
    ELSE {Rejected(s)}

\* deflateSetHeader(strm, head)
deflateSetHeader(a, s) ==
    IF from_stream_mut(a.strm, s) THEN Engine({"Ok", "StreamError"}, s)
    ELSE {Rejected(s)}

\* compress2(dest, destLen, source, sourceLen, level)
\* the engine behind compress2: where the caller has named the bytes at
\* source (a.input), the stream of those bytes at a.level
deflate_compress(a, s) ==
    IF "input" \in DOMAIN a
    THEN one_shot_of(zlib_rs_compress(Pointee(a.destLen), a.input, a.level), s)
    ELSE one_shot(Pointee(a.destLen), s)

compress2_writing_first(a, s) ==
    IF a.destLen = NullPtr THEN {Rejected(s)}
    ELSE IF a.dest = "null" \/ a.source = "null"
    THEN {[Rejected(s) EXCEPT !.written = <<0>>]}
    ELSE deflate_compress(a, s)

compress2(a, s) ==
    IF a.destLen = NullPtr THEN {Rejected(s)}
    ELSE IF a.dest = "null" THEN {Rejected(s)}
    ELSE IF a.source = "null" THEN {Rejected(s)}
    ELSE deflate_compress(a, s)

\* DeflateConfig::default().level
DEFAULT_LEVEL == 6

\* compress with level 0 (no compression) for the default level
compress_without_compression(a, s) ==
    compress2([dest |-> a.dest, destLen |-> a.destLen, source |-> a.source,
               input |-> a.input, level |-> 0], s)

\* compress(dest, destLen, source, sourceLen)
compress(a, s) ==
    compress2([dest |-> a.dest, destLen |-> a.destLen, source |-> a.source,
               input |-> a.input, level |-> DEFAULT_LEVEL], s)

\* deflateEnd(strm): zlib_rs::deflate::end releases the state, and reports
\* whether the stream was in the middle of its data
deflateEnd(a, s) ==
    IF from_stream_mut(a.strm, s) THEN Engine({"Ok", "DataError"}, end(s))
    ELSE {Rejected(s)}

deflateReset(a, s) ==
    IF from_stream_mut(a.strm, s) THEN Engine({"Ok", "StreamError"}, s)
    ELSE {Rejected(s)}

\* deflateParams(strm, level, strategy): the strategy is converted first
deflateParams(a, s) ==
    IF a.strategy # "defined" THEN {Rejected(s)}
    ELSE IF from_stream_mut(a.strm, s)
    THEN Engine({"Ok", "StreamError", "BufferError"}, s)
    ELSE {Rejected(s)}

\* deflateSetDictionary(strm, dictionary, dictLength): the slice is made
\* from the dictionary pointer before anything else.  from_raw_parts on a
\* null pointer is undefined behaviour: a build with the standard library's
\* precondition checks aborts there, another build carries on with the slice.
deflateSetDictionary(a, s) ==
    LET carried_on ==
            IF from_stream_mut(a.strm, s)
            THEN Engine({"Ok", "StreamError"}, s)
            ELSE {Rejected(s)}
        outcomes ==
            IF a.dictionary = "null"
            THEN {Outcome("Abort", FALSE, s)} \cup carried_on
            ELSE carried_on
    IN {[o EXCEPT !.early = {"dictionary"}] : o \in outcomes}

deflatePrime(a, s) ==
    IF from_stream_mut(a.strm, s)
    THEN Engine({"Ok", "StreamError", "BufferError"}, s)
    ELSE {Rejected(s)}

\* deflatePending(strm, pending, bits): answered at the boundary, from
\* stream.pending()
deflatePending(a, s) ==
    IF from_stream_mut(a.strm, s) THEN {Outcome("Ok", FALSE, s)}
    ELSE {Rejected(s)}

\* deflateCopy(dest, source): a non-null dest becomes a reference before
\* the source is looked at
deflateCopy(a, s) ==
    IF a.dest = "null" THEN {Rejected(s)}
    ELSE {[o EXCEPT !.early = {"dest"}] :
             o \in IF from_stream_mut(a.strm, s)
                   THEN Engine({"Ok", "MemoryError", "StreamError"}, s)
                   ELSE {Rejected(s)}}

deflateInit_(a, s) ==
    IF ~is_version_compatible(a.version, a.stream_size)
    THEN {Outcome("VersionError", FALSE, s)}
    ELSE IF a.strm = "null" THEN {Rejected(s)}
    ELSE init(default_allocators(s), "deflate")

deflateInit2_(a, s) ==
    IF ~is_version_compatible(a.version, a.stream_size)
    THEN {Outcome("VersionError", FALSE, s)}
    ELSE IF a.strm = "null" THEN {Rejected(s)}
    ELSE IF a.method # "defined" THEN {Rejected(s)}
    ELSE IF a.strategy # "defined" THEN {Rejected(s)}
    ELSE init(default_allocators(s), "deflate")

deflateTune(a, s) ==
    IF from_stream_mut(a.strm, s) THEN Engine({"Ok"}, s)
    ELSE {Rejected(s)}

(***************************************************************************)
(* Callers of the boundary.  A caller starts from a z_stream with no       *)
(* state, whose allocator fields it has set or left unset, and calls the   *)
(* entry points with any arguments their safety contracts allow: the       *)
(* functions of one direction on a stream only while it has no state or    *)
(* the state of that direction.  A call that aborts or panics ends the     *)
(* process.                                                                *)
(***************************************************************************)
InitFns == {"inflateInit_", "inflateInit2_", "deflateInit_", "deflateInit2_"}
EndFns == {"inflateEnd", "deflateEnd"}
UnimplementedFns ==
    {"inflateBackInit_", "inflateBack", "inflateBackEnd", "inflateCodesUsed"}
StreamFns ==
    {"inflate", "inflateSync", "inflateReset", "inflateReset2", "inflatePrime",
     "inflateSetDictionary", "inflateGetHeader", "inflateCopy", "deflate",
     "deflateReset", "deflateParams", "deflateSetDictionary", "deflatePrime",
     "deflatePending", "deflateCopy", "deflateTune", "deflateSetHeader"}

Family(fn) ==
    IF fn \in {"deflate", "deflateEnd", "deflateReset", "deflateParams",
               "deflateSetDictionary", "deflatePrime", "deflatePending",
               "deflateCopy", "deflateTune", "deflateSetHeader",
               "deflateInit_", "deflateInit2_"}
    THEN "deflate" ELSE "inflate"

Versions ==
    {NullPtr, PointerTo(<<>>), PointerTo(<<"1", ".", "3">>),
     PointerTo(<<"1", ".", "2">>), PointerTo(<<"2", ".", "0">>)}

StreamSizes == {"size_of::<z_stream>()", "another size"}

\* the arguments an entry point may be called with
ArgsOf(fn) ==
    CASE fn \in {"inflateInit_", "inflateInit2_", "deflateInit_"} ->
            [strm : StreamPointers, version : Versions,
             stream_size : StreamSizes]
      [] fn = "deflateInit2_" ->
            [strm : StreamPointers, version : Versions,
             stream_size : StreamSizes, method : EnumArgs, strategy : EnumArgs]
      [] fn \in {"inflate", "deflate"} ->
            [strm : StreamPointers, flush : EnumArgs]
      [] fn \in {"inflateSetDictionary", "deflateSetDictionary"} ->
            [strm : StreamPointers, dictionary : Pointers]
      [] fn \in {"inflateGetHeader", "deflateSetHeader"} ->
            [strm : StreamPointers, head : Pointers]
      [] fn \in {"inflateCopy", "deflateCopy"} ->
            [strm : StreamPointers, dest : Pointers]
      [] fn = "deflateParams" ->
            [strm : StreamPointers, strategy : EnumArgs]
      [] fn = "deflatePending" ->
            [strm : StreamPointers, pending : Pointers, bits : Pointers]
      [] OTHER -> [strm : StreamPointers]

Dispatch(fn, a, s) ==
    CASE fn = "inflate" -> inflate(a, s)
      [] fn = "inflateEnd" -> inflateEnd(a, s)
      [] fn = "inflateBackInit_" -> inflateBackInit_(a, s)
      [] fn = "inflateBack" -> inflateBack(a, s)
      [] fn = "inflateBackEnd" -> inflateBackEnd(a, s)
      [] fn = "inflateCopy" -> inflateCopy(a, s)
      [] fn = "inflateMark" -> inflateMark(a, s)
      [] fn = "inflateSync" -> inflateSync(a, s)
      [] fn = "inflateInit_" -> inflateInit_(a, s)
      [] fn = "inflateInit2_" -> inflateInit2_(a, s)
      [] fn = "inflatePrime" -> inflatePrime(a, s)
      [] fn = "inflateReset" -> inflateReset(a, s)
      [] fn = "inflateReset2" -> inflateReset2(a, s)
      [] fn = "inflateSetDictionary" -> inflateSetDictionary(a, s)
      [] fn = "inflateGetHeader" -> inflateGetHeader(a, s)
      [] fn = "inflateCodesUsed" -> inflateCodesUsed(a, s)
      [] fn = "deflate" -> deflate(a, s)
      [] fn = "deflateSetHeader" -> deflateSetHeader(a, s)
      [] fn = "deflateEnd" -> deflateEnd(a, s)
      [] fn = "deflateReset" -> deflateReset(a, s)
      [] fn = "deflateParams" -> deflateParams(a, s)
      [] fn = "deflateSetDictionary" -> deflateSetDictionary(a, s)
      [] fn = "deflatePrime" -> deflatePrime(a, s)
      [] fn = "deflatePending" -> deflatePending(a, s)
      [] fn = "deflateCopy" -> deflateCopy(a, s)
      [] fn = "deflateInit_" -> deflateInit_(a, s)
      [] fn = "deflateInit2_" -> deflateInit2_(a, s)
      [] fn = "deflateTune" -> deflateTune(a, s)
      [] fn = "crc32" -> crc32(a, s)
      [] fn = "crc32_combine" -> crc32_combine(a, s)
      [] fn = "adler32" -> libz_adler32(a, s)
      [] fn = "adler32_combine" -> adler32_combine(a, s)
      [] fn = "uncompress" -> uncompress(a, s)
      [] fn = "compress2" -> compress2(a, s)
      [] fn = "compress" -> compress(a, s)

Crashed == call.ret \in {"Panic", "Abort"}

\* the direction's functions are called on a stream of that direction
Contract(fn, a) ==
    a.strm = "strm" => z_stream.state \in {"null", Family(fn)}

Life(fn, o) ==
    IF fn \in InitFns /\ o.ret = "Ok" THEN "live"
    ELSE IF fn \in EndFns /\ o.engine THEN "ended"
    ELSE call.life

Enter(fn, a) ==
    /\ ~Crashed
    /\ \E o \in Dispatch(fn, a, z_stream) :
          /\ call' = [fn |-> fn, args |-> a, ret |-> o.ret, value |-> o.value,
                      written |-> o.written, engine |-> o.engine,
                      early |-> o.early, before |-> z_stream,
                      life |-> Life(fn, o)]
          /\ z_stream' = o.stream
    /\ UNCHANGED <<Stored, allocator>>

InitEntry ==
    \E fn \in InitFns : \E a \in ArgsOf(fn) :
        /\ a.strm = "strm" => z_stream.state = "null"
        /\ Enter(fn, a)

StreamEntry ==
    \E fn \in StreamFns : \E a \in ArgsOf(fn) : Contract(fn, a) /\ Enter(fn, a)

EndEntry ==
    \E fn \in EndFns : \E a \in ArgsOf(fn) : Contract(fn, a) /\ Enter(fn, a)

MarkEntry ==
    \E a \in ArgsOf("inflateMark") :
        Contract("inflateMark", a) /\ Enter("inflateMark", a)

UnimplementedEntry ==
    \E fn \in UnimplementedFns : \E a \in ArgsOf(fn) : Enter(fn, a)

OneShotEntry ==
    \E fn \in {"uncompress", "compress2"} :
        \E a \in [dest : Pointers,
                  destLen : {NullPtr} \cup {PointerTo(n) : n \in 0..MaxBuf},
                  source : Pointers] : Enter(fn, a)

BoundaryInit ==
    /\ StoredInit(MaxWSize, MaxPendingCap, 0)
    /\ allocator \in AllocatorFeatures
    /\ z_stream \in [zalloc : {"none", "user"}, zfree : {"none", "user"},
                     opaque : {"null", "user"}, state : {"null"}]
    /\ call = [NoCall EXCEPT !.life = "fresh"]

NextBoundary ==
    \/ InitEntry
    \/ StreamEntry
    \/ EndEntry
    \/ MarkEntry
    \/ UnimplementedEntry
    \/ OneShotEntry

SpecBoundary == BoundaryInit /\ [][NextBoundary]_vars

(***************************************************************************)
(* The checksum functions are pure: the caller's arguments are drawn in    *)
(* the initial state and one step applies the entry point to them.         *)
(***************************************************************************)
\* checksum values a caller may hold: c_ulong is wider than the checksum
CrcAccumulators == {{}, {0}, 0..31, {0, 32}}
AdlerAccumulators == {{}, {0}, {0, 16}, 0..31, {0, 32}}
BufferPointers == {NullPtr} \cup {PointerTo(b) : b \in Buffers}

\* adler32 on a buffer is given a sum that the engine's arithmetic holds
ChecksumCalls ==
    {[entry |-> "crc32", a |-> [crc |-> c, buf |-> b, len |-> n]] :
        c \in CrcAccumulators, b \in BufferPointers, n \in 0..MaxBuf}
    \cup
    {[entry |-> "adler32", a |-> [adler |-> c, buf |-> b, len |-> n]] :
        c \in AdlerAccumulators, b \in BufferPointers, n \in 0..MaxBuf}

WithinBuffer(d) ==
    d.a.buf # NullPtr =>
        /\ d.a.len <= Len(Pointee(d.a.buf))
        /\ d.entry = "adler32" => 31 \notin d.a.adler

\* any two checksum values with any length
CombineCalls ==
    {[entry |-> "crc32_combine",
      a |-> [crc1 |-> c1, crc2 |-> c2, len2 |-> n, of |-> <<>>]] :
        c1 \in CrcAccumulators, c2 \in CrcAccumulators, n \in (-MaxBuf)..MaxBuf}
    \cup
    {[entry |-> "adler32_combine",
      a |-> [adler1 |-> c1, adler2 |-> c2, len2 |-> n, of |-> <<>>]] :
        c1 \in AdlerAccumulators, c2 \in AdlerAccumulators,
        n \in (-MaxBuf)..MaxBuf}

\* two chunks to checksum separately and combine
ChunkPairs ==
    {[entry |-> e, a |-> [of |-> <<lo, hi>>]] :
        e \in {"crc32_combine", "adler32_combine"}, lo \in Buffers, hi \in Buffers}

Drawn(d) == [NoCall EXCEPT !.fn = "drawn", !.args = d]

\* the value an entry point returns
ValueOf(fn, a) == (CHOOSE o \in Dispatch(fn, a, z_stream) : TRUE).value

Checksum(fn, start, bytes) ==
    IF fn = "crc32"
    THEN ValueOf(fn, [crc |-> start, buf |-> PointerTo(bytes), len |-> Len(bytes)])
    ELSE ValueOf(fn, [adler |-> start, buf |-> PointerTo(bytes),
                      len |-> Len(bytes)])

\* the initial value of a checksum: what the function returns for no buffer
Initial(fn) ==
    IF fn = "crc32" THEN ValueOf(fn, [crc |-> {}, buf |-> NullPtr, len |-> 0])
    ELSE ValueOf(fn, [adler |-> {}, buf |-> NullPtr, len |-> 0])

ChecksumEntry ==
    /\ call.fn = "drawn"
    /\ call.args \in ChecksumCalls
    /\ Enter(call.args.entry, call.args.a)

CombineEntry ==
    /\ call.fn = "drawn"
    /\ call.args \in CombineCalls
    /\ Enter(call.args.entry, call.args.a)

\* crc32 / adler32 of each chunk from the initial value, then the combine
CombineChunks ==
    /\ call.fn = "drawn"
    /\ call.args \in ChunkPairs
    /\ LET lo == call.args.a.of[1]
           hi == call.args.a.of[2]
       IN IF call.args.entry = "crc32_combine"
          THEN Enter("crc32_combine",
                     [crc1 |-> Checksum("crc32", Initial("crc32"), lo),
                      crc2 |-> Checksum("crc32", Initial("crc32"), hi),
                      len2 |-> Len(hi), of |-> <<lo, hi>>])
          ELSE Enter("adler32_combine",
                     [adler1 |-> Checksum("adler32", Initial("adler32"), lo),
                      adler2 |-> Checksum("adler32", Initial("adler32"), hi),
                      len2 |-> Len(hi), of |-> <<lo, hi>>])

ChecksumInit ==
    /\ StoredInit(MaxWSize, MaxPendingCap, 0)
    /\ allocator = "rust-allocator"
    /\ z_stream = DeflateStream
    /\ call \in {Drawn(d) : d \in {c \in ChecksumCalls : WithinBuffer(c)}
                                  \cup CombineCalls \cup ChunkPairs}

NextChecksum ==
    \/ ChecksumEntry
    \/ CombineEntry
    \/ CombineChunks

SpecChecksum == ChecksumInit /\ [][NextChecksum]_vars

(***************************************************************************)
(* The one-shot functions on named bytes: a caller compresses a text into  *)
(* a buffer (the variable `out` is the destination, as the call left it),  *)
(* and then uncompresses what the compression left there or the stream the *)
(* documentation of compress shows.                                        *)
(***************************************************************************)
\* b"Ferris"
Ferris == <<70, 101, 114, 114, 105, 115>>

\* the bytes the documentation of compress and uncompress shows for it
FerrisCompressed == <<120, 156, 115, 75, 45, 42, 202, 44, 6, 0, 8, 6, 2, 108>>

\* the texts a caller compresses: the pieces of "Ferris"
Texts == {SubSeq(Ferris, i, j) : i \in 1..Len(Ferris), j \in 0..Len(Ferris)}

\* the sizes of the destination: none, one byte short of either result,
\* either result exactly, and the 100 bytes of the documentation
Capacities == {0, 5, 6, 13, 14, 100}

Levels == {-1, 0, 1, 6, 9}

\* one call of a one-shot function; the stream argument plays no part
EnterOneShot(fn, a) ==
    /\ \E o \in Dispatch(fn, a, z_stream) :
          /\ call' = [fn |-> fn, args |-> a, ret |-> o.ret, value |-> o.value,
                      written |-> o.written, engine |-> o.engine,
                      early |-> o.early, before |-> z_stream,
                      life |-> call.life]
          /\ out' = o.dest
    /\ UNCHANGED <<Config, window, strstart, block_start, insert, matches,
                   high_water, pending, bi_buf, bi_valid, avail_in, total_in,
                   avail_out, adler, checked, flush, status, steps,
                   allocator, z_stream>>

CompressEntry ==
    /\ call.fn = "none"
    /\ \E text \in Texts, cap \in Capacities :
        EnterOneShot("compress", [dest |-> "valid", destLen |-> PointerTo(cap),
                                  source |-> "valid", input |-> text])

Compress2Entry ==
    /\ call.fn = "none"
    /\ \E text \in Texts, cap \in Capacities, level \in Levels :
        EnterOneShot("compress2", [dest |-> "valid", destLen |-> PointerTo(cap),
                                   source |-> "valid", input |-> text,
                                   level |-> level])

\* the source is what the latest compression left in its destination, that
\* without its last byte, or the documented stream
UncompressEntry ==
    /\ call.fn \in {"none", "compress", "compress2"}
    /\ \E input \in {out, SubSeq(out, 1, Len(out) - 1), FerrisCompressed},
          cap \in Capacities :
        EnterOneShot("uncompress", [dest |-> "valid", destLen |-> PointerTo(cap),
                                    source |-> "valid", input |-> input])

OneShotInit ==
    /\ StoredInit(MaxWSize, MaxPendingCap, 0)
    /\ allocator = "rust-allocator"
    /\ z_stream = [DeflateStream EXCEPT !.state = "null"]
    /\ call = NoCall

NextOneShot ==
    \/ CompressEntry
    \/ Compress2Entry
    \/ UncompressEntry

SpecOneShot == OneShotInit /\ [][NextOneShot]_vars

(***************************************************************************)
(* The claims.                                                             *)
(***************************************************************************)

\* C1: in every state a sequence of deflate_stored calls reaches,
\* 0 <= block_start <= strstart <= window_size.
C1_WindowOffsetsOrdered ==
    /\ 0 <= block_start
    /\ block_start <= strstart
    /\ strstart <= window_size

\* a call has returned after the window had filled to its last byte and
\* then slid
C1_Witness ==
    /\ status = "BlockDone"
    /\ matches = 1
    /\ high_water = window_size
    /\ strstart < window_size
    /\ block_start = strstart

\* C2: once a call has returned a finish status and pending is drained, the
\* output is a whole stored-block stream that ends with its final block, and
\* the payloads in emission order are exactly the input supplied: nothing
\* is left unconsumed, lost, duplicated or out of place.
C2_RoundTrip ==
    (Finished /\ pending = <<>>) =>
        /\ Inflated(out).ended
        /\ Inflated(out).whole
        /\ Payloads(Inflated(out).blocks) = InputBytes(0, Supplied)
        /\ avail_in = 0

\* a finished stream of the longest input, some of whose blocks came through
\* the window and pending and some straight from the input
C2_Witness ==
    /\ Finished
    /\ pending = <<>>
    /\ Supplied = MaxInput
    /\ Len(Inflated(out).blocks) >= 3
    /\ matches > 0

\* C3: everything emitted, to next_out or into pending, is a sequence of
\* whole stored blocks: type bits 00 after the final bit, LEN and NLEN as
\* little-endian 16-bit fields with NLEN = LEN XOR 0xFFFF, exactly LEN payload
\* bytes, and LEN <= MAX_STORED.
C3_WireForm ==
    LET r == Inflated(Emitted)
    IN /\ r.whole
       /\ \A i \in 1..Len(r.blocks) :
            /\ r.blocks[i].btype = 0
            /\ r.blocks[i].nlen = Xor(r.blocks[i].len, 65535, 16)
            /\ r.blocks[i].len = Len(r.blocks[i].payload)
            /\ r.blocks[i].len <= MAX_STORED
            /\ r.blocks[i].final => i = Len(r.blocks)

\* blocks of the largest length and shorter ones have been emitted after
\* primed bits, the latest of them into pending
C3_Witness ==
    /\ prime_bits > 0
    /\ pending # <<>>
    /\ Len(Inflated(Emitted).blocks) >= 3
    /\ \E i \in 1..Len(Inflated(Emitted).blocks) :
            Inflated(Emitted).blocks[i].len = MAX_STORED

\* C4: when a call with flush = sync returns BlockDone, the output so far is
\* a sequence of whole blocks whose payloads are exactly the input consumed
\* so far; nothing consumed is held back in the window or in pending.
C4_SyncFlushPoint ==
    (status = "BlockDone" /\ flush = "SyncFlush") =>
        /\ pending = <<>>
        /\ Inflated(out).whole
        /\ ~Inflated(out).ended
        /\ Payloads(Inflated(out).blocks) = InputBytes(0, total_in)
        /\ avail_in = 0

\* a sync flush point after input that went through the window
C4_Witness ==
    /\ status = "BlockDone"
    /\ flush = "SyncFlush"
    /\ total_in >= 3
    /\ Len(Inflated(out).blocks) >= 2
    /\ \E i \in 1..Len(steps) : steps[i][1] > 0 /\ steps[i][2] < 5

\* the output of one call with flush = finish that is given all of an
\* n-byte input and room for every block
OneCall(n) ==
    LET s0 == [FreshStream(w_size, pending_cap, prime_bits)
                 EXCEPT !.avail_in = n, !.avail_out = (7 * n) + 7]
    IN deflate_stored(s0, "Finish")

\* C5: an input fed in chunks (no-flush between, finish with the last, any
\* output space) gives a stream, and that stream decodes to the same bytes
\* as the stream of one call with flush = finish on the whole input: the
\* input itself.
C5_Fragmentation ==
    /\ status # "Panic"
    /\ (Finished /\ pending = <<>>) =>
        /\ OneCall(Supplied).status = "FinishDone"
        /\ Payloads(Inflated(out).blocks)
             = Payloads(Inflated(OneCall(Supplied).s.out).blocks)
        /\ Payloads(Inflated(out).blocks) = InputBytes(0, Supplied)

\* C5 for the runs in which every call returns
C5_FragmentationWhenReturning ==
    (Finished /\ pending = <<>>) =>
        /\ OneCall(Supplied).status = "FinishDone"
        /\ Payloads(Inflated(out).blocks)
             = Payloads(Inflated(OneCall(Supplied).s.out).blocks)
        /\ Payloads(Inflated(out).blocks) = InputBytes(0, Supplied)

\* the input not yet in any block: still at next_in, or unflushed in the window
WorkLeft == avail_in + (strstart - block_start)

\* C6: a caller that has passed finish and calls again with finish, no new
\* input and room for output (pending drained; the step is a call) gets
\* a finish status, or NeedMore with strictly less input left to emit: the
\* call returns, and NeedMore cannot be returned forever.
C6_FinishIsReached ==
    [][(flush = "Finish" /\ status = "NeedMore" /\ steps = <<>> /\ steps' # <<>>) =>
          \/ Finished'
          \/ (status' = "NeedMore" /\ WorkLeft' < WorkLeft)]_vars

\* C6 but for the calls that do not return
C6_FinishIsReachedOrPanic ==
    [][(flush = "Finish" /\ status = "NeedMore" /\ steps = <<>> /\ steps' # <<>>) =>
          \/ Finished'
          \/ status' = "Panic"
          \/ (status' = "NeedMore" /\ WorkLeft' < WorkLeft)]_vars

\* C7: every call returns one of the four block statuses.
C7_AlwaysReturns ==
    status \in {"Init", "NeedMore", "BlockDone", "FinishStarted", "FinishDone"}

\* C8: the check value covers exactly the input consumed so far, in order,
\* each byte once.
C8_ChecksumCoversConsumed ==
    /\ checked = InputBytes(0, total_in)
    /\ adler = adler32(1, InputBytes(0, total_in))

\* input has been consumed both into the window and straight to the output,
\* and bytes have gone from the window to the output and to pending
C8_Witness ==
    /\ total_in = MaxInput
    /\ matches > 0
    /\ Finished
    /\ pending # <<>>
    /\ Len(Inflated(Emitted).blocks) >= 3

\* C9: within one call avail_in and avail_out never go up and never below 0.
C9_AvailMonotone ==
    /\ avail_in >= 0
    /\ avail_out >= 0
    /\ \A i \in 1..Len(steps) : steps[i][1] >= 0 /\ steps[i][2] >= 0
    /\ \A i \in 1..(Len(steps) - 1) :
        /\ steps[i + 1][1] <= steps[i][1]
        /\ steps[i + 1][2] <= steps[i][2]
    /\ steps # <<>> => steps[Len(steps)] = <<avail_in, avail_out>>

\* a call that flushed two headers and took payload from the window and from
\* the input, using the output space to the last byte
C9_Witness ==
    /\ Len(steps) >= 6
    /\ avail_out = 0
    /\ steps[1][2] = MaxOut
    /\ \E i \in 1..(Len(steps) - 1) :
        steps[i + 1][1] = steps[i][1] /\ steps[i + 1][2] < steps[i][2] - 2
                                      /\ steps[i][2] < steps[1][2]

\* C10: every window offset below high_water has been written, high_water
\* is at least strstart, and high_water never goes down.
C10_HighWater ==
    /\ [](/\ high_water <= window_size
          /\ \A i \in 1..high_water : window[i] # 0
          /\ high_water >= strstart)
    /\ [][high_water' >= high_water]_vars

\* after a slide strstart is below a high_water that a fill had raised to
\* the end of the window
C10_Witness ==
    /\ high_water = window_size
    /\ strstart < high_water
    /\ strstart > 0
    /\ matches > 0

(***************************************************************************)
(* The claims about the C boundary.                                        *)
(***************************************************************************)
\* the 19 entry points that take a stream and return a status
HandleFns == StreamFns \cup EndFns

\* the stream pointer of the latest call was null or led to no stream
InvalidHandle ==
    \/ call.args.strm = "null"
    \/ call.before.zalloc = "none"
    \/ call.before.zfree = "none"
    \/ call.before.state = "null"

\* C11: a call of one of the 19 entry points with a null or invalid stream
\* returns StreamError, has not reached the engine, and has made no
\* reference or slice from another pointer argument on the way.
C11_InvalidHandleRejected ==
    (call.fn \in HandleFns /\ InvalidHandle) =>
        /\ call.ret = "StreamError"
        /\ ~call.engine
        /\ call.early = {}

\* C11 but for deflateSetDictionary and deflateCopy, the two entry points
\* that look at another pointer first: all the others do as C11 says, and
\* these two return StreamError as well unless the dictionary is null
C11_RejectedButForEarlyPointers ==
    (call.fn \in HandleFns /\ InvalidHandle) =>
        /\ ~call.engine
        /\ call.early # {} => call.fn \in {"deflateSetDictionary", "deflateCopy"}
        /\ (call.fn = "deflateSetDictionary" => call.args.dictionary # "null")
              => call.ret = "StreamError"

\* the latest call was made on the stream after its end and before any
\* new init
AfterEnd ==
    /\ call.fn \in HandleFns
    /\ call.args.strm = "strm"
    /\ call.life = "ended"
    /\ call.before.state = "null"

\* C12: a call that reaches the engine is made on a live stream (after an
\* init that succeeded, before the end), and every call made after the end
\* and before a new init returns StreamError without reaching the engine.
C12_Lifecycle ==
    /\ (call.fn \in HandleFns /\ call.engine) =>
          (call.args.strm = "strm" /\ call.before.state # "null")
    /\ (z_stream.state # "null") <=> (call.life = "live")
    /\ AfterEnd => (call.ret = "StreamError" /\ ~call.engine)

\* C12 but for deflateSetDictionary with a null dictionary
C12_LifecycleButForNullDictionary ==
    /\ (call.fn \in HandleFns /\ call.engine) =>
          (call.args.strm = "strm" /\ call.before.state # "null")
    /\ (z_stream.state # "null") <=> (call.life = "live")
    /\ (/\ AfterEnd
        /\ call.fn = "deflateSetDictionary" => call.args.dictionary # "null")
          => (call.ret = "StreamError" /\ ~call.engine)

C12_RejectedAfterEnd ==
    /\ AfterEnd
    /\ call.fn \in EndFns
    /\ call.ret = "StreamError"

\* the latest call combined the checksums of two chunks
CombinedChunks(fn) == call.fn = fn /\ call.args.of # <<>>

\* the checksum of the two chunks as one buffer, from the initial value
Whole(fn) == Checksum(fn, Initial(fn), call.args.of[1] \o call.args.of[2])

\* C13: for both checksums, combining the checksum of a chunk A and the
\* checksum of a chunk B, each from the initial value, with the length of B
\* gives the checksum of A followed by B.
C13_CombineLaw ==
    /\ CombinedChunks("crc32_combine") => call.value = Whole("crc32")
    /\ CombinedChunks("adler32_combine") => call.value = Whole("adler32")

C13_Witness ==
    /\ CombinedChunks("crc32_combine")
    /\ Len(call.args.of[1]) = MaxBuf
    /\ Len(call.args.of[2]) > 0
    /\ call.args.of[1] # call.args.of[2]
    /\ call.value = Whole("crc32")
    /\ call.value # call.args.crc1

\* C14: with a null buffer crc32 returns 0 and adler32 returns 1, whatever
\* the checksum and the length passed.
C14_NullBuffer ==
    /\ (call.fn = "crc32" /\ call.args.buf = NullPtr) => call.value = {}
    /\ (call.fn = "adler32" /\ call.args.buf = NullPtr) => call.value = {0}

C14_Witness ==
    /\ call.fn = "crc32"
    /\ call.args.buf = NullPtr
    /\ call.args.crc = {0}
    /\ call.args.len > 0
    /\ call.value = {}

\* C15: crc32_combine with a negative length returns 0xFFFFFFFF, whatever
\* the two checksums.
C15_CrcCombineSentinel ==
    (call.fn = "crc32_combine" /\ call.args.len2 < 0) => call.value = 0..31

\* C15 as the code has it: it is adler32_combine that returns 0xFFFFFFFF for
\* a negative length, whatever the two checksums, without combining them.
C15_AdlerCombineSentinel ==
    (call.fn = "adler32_combine" /\ call.args.len2 < 0) =>
        (call.value = 0..31 /\ ~call.engine)

C15_Witness ==
    /\ call.fn = "adler32_combine"
    /\ call.args.len2 < 0
    /\ call.args.adler1 = {0}
    /\ call.args.adler2 = {0}
    /\ call.value = 0..31

\* -65536 as a c_long
MinusTwoToThe16 == 16..63

\* C16: inflateMark on a null or inconsistent stream returns -65536.
C16_MarkOnInvalidStream ==
    (call.fn = "inflateMark" /\ InvalidHandle) => call.value = MinusTwoToThe16

\* C17: a call of inflateBackInit_, inflateBack, inflateBackEnd or
\* inflateCodesUsed returns to its caller, with an error status, whatever
\* the arguments.
C17_UnimplementedReturnsError ==
    call.fn \in UnimplementedFns =>
        call.ret \in (ReturnCodes \ {"Ok", "StreamEnd"})

\* what makes the caller's version incompatible: no version string, a
\* first character other than '1', or another size of z_stream
Incompatible ==
    \/ call.args.version = NullPtr
    \/ Pointee(call.args.version) = <<>>
    \/ Head(Pointee(call.args.version)) # "1"
    \/ call.args.stream_size # "size_of::<z_stream>()"

\* the latest call is an init with an argument that is no defined value
UndefinedEnum ==
    /\ call.fn = "deflateInit2_"
    /\ "undefined" \in {call.args.method, call.args.strategy}

\* C18: an init returns VersionError exactly when the version is
\* incompatible, and then the stream is as it was; with a compatible
\* version it returns StreamError for a null strm (deflateInit2_: also for
\* an undefined method or strategy) without reaching the engine, and
\* reaches the engine's init in every other case.
C18_InitChecks ==
    call.fn \in InitFns =>
        /\ (call.ret = "VersionError") <=> Incompatible
        /\ Incompatible => (z_stream = call.before /\ ~call.engine)
        /\ (~Incompatible /\ (call.args.strm = "null" \/ UndefinedEnum)) =>
              (call.ret = "StreamError" /\ ~call.engine)
        /\ call.engine <=>
              (~Incompatible /\ call.args.strm # "null" /\ ~UndefinedEnum)

C18_Witness ==
    /\ call.fn = "deflateInit2_"
    /\ call.args.version = PointerTo(<<"1", ".", "2">>)
    /\ call.args.stream_size # "size_of::<z_stream>()"
    /\ call.args.strm = "null"
    /\ call.args.strategy = "undefined"
    /\ call.ret = "VersionError"

\* the init went as far as the allocator fields
ReachedAllocators == call.fn \in InitFns /\ call.engine

\* C19: an init that gets to the allocator fields replaces an unset zalloc
\* by the built-in one and then resets opaque to null, replaces an unset
\* zfree by the built-in one, and leaves a zalloc, zfree or opaque that the
\* caller supplied as it is; an init that does not get there changes none.
C19_AllocatorDefaults ==
    /\ ReachedAllocators =>
          /\ z_stream.zalloc = IF call.before.zalloc = "none"
                               THEN DEFAULT_ZALLOC ELSE call.before.zalloc
          /\ z_stream.opaque = IF call.before.zalloc = "none"
                               THEN "null" ELSE call.before.opaque
          /\ z_stream.zfree = IF call.before.zfree = "none"
                              THEN DEFAULT_ZFREE ELSE call.before.zfree
    /\ (call.fn \in InitFns /\ ~call.engine) => z_stream = call.before

C19_Witness ==
    /\ ReachedAllocators
    /\ allocator # "none"
    /\ call.before.zalloc = "user"
    /\ call.before.opaque = "user"
    /\ call.before.zfree = "none"
    /\ z_stream.zalloc = "user"
    /\ z_stream.opaque = "user"
    /\ z_stream.zfree = "default"

\* one of the three pointers of the latest one-shot call is null
NullArgument ==
    \/ call.args.destLen = NullPtr
    \/ call.args.dest = "null"
    \/ call.args.source = "null"

\* C20: compress2 and uncompress with a null destLen, dest or source return
\* StreamError, write nothing through destLen and do not reach the engine;
\* otherwise they reach the engine, return its status and write through
\* destLen a length that is at most the one found there.
C20_OneShot ==
    call.fn \in {"compress2", "uncompress"} =>
        IF NullArgument
        THEN call.ret = "StreamError" /\ call.written = <<>> /\ ~call.engine
        ELSE /\ call.engine
             /\ Len(call.written) = 1
             /\ call.written[1] \in 0..Pointee(call.args.destLen)

C20_Witness ==
    /\ call.fn = "compress2"
    /\ ~NullArgument
    /\ Pointee(call.args.destLen) = MaxBuf
    /\ call.written = <<1>>
    /\ call.ret = "Ok"

\* the latest call had room in its destination for `n` bytes
RoomFor(n) == Pointee(call.args.destLen) >= n

\* C21: compress of "Ferris" (default level, a destination with room for
\* the result) returns Ok and leaves exactly the 14 bytes 78 9C 73 4B 2D 2A
\* CA 2C 06 00 08 06 02 6C with destLen = 14; uncompress of those 14 bytes
\* (room for 6) returns Ok and leaves exactly "Ferris" with destLen = 6.
C21_Ferris ==
    /\ (/\ call.fn = "compress"
        /\ call.args.input = Ferris
        /\ RoomFor(14)) =>
            (call.ret = "Ok" /\ out = FerrisCompressed /\ call.written = <<14>>)
    /\ (/\ call.fn = "uncompress"
        /\ call.args.input = FerrisCompressed
        /\ RoomFor(6)) =>
            (call.ret = "Ok" /\ out = Ferris /\ call.written = <<6>>)

\* "Ferris" has come back from the bytes that the compression before left
C21_Witness ==
    /\ call.fn = "uncompress"
    /\ call.args.input = FerrisCompressed
    /\ Pointee(call.args.destLen) = 6
    /\ call.ret = "Ok"
    /\ out = Ferris
    /\ call.written = <<6>>

(***************************************************************************)
(* The claims about the inside of one call.                                *)
(***************************************************************************)
\* a call of deflate_stored has been made and its output not yet taken
Called == call.fn = "deflate_stored"

\* the loop copied some input to next_out, but less than a window of it
UsedLessThanWindow == Called /\ call.used > 0 /\ call.used < w_size

\* the window's free space when the loop was left
RoomFound == window_size - call.found.strstart

\* C22: when 0 < used < w_size the window is slid if and only if the space
\* left in it is strictly smaller than used; bytes that fit exactly are
\* appended without a slide.
C22_SlideOnlyWhenTooSmall ==
    UsedLessThanWindow => (call.slid <=> RoomFound < call.used)

\* C22 as the code has it: the window is slid also when the bytes would
\* fit exactly
C22_SlideWhenNoSpareRoom ==
    UsedLessThanWindow => (call.slid <=> RoomFound <= call.used)

\* a slide for bytes that fit exactly
C22_ExactFitSlides ==
    UsedLessThanWindow /\ RoomFound = call.used /\ call.slid

\* everything the iterations of the loop wrote, in order
DirectOutput == Concat([i \in 1..Len(call.direct) |-> call.direct[i].written])

\* C23: a block the loop writes is shorter than min_block = min(pending
\* capacity - 5, w_size) only if flush is not no-flush, the block takes all
\* of left + avail_in, and it is non-empty or flush is finish; the loop
\* emits nothing but the blocks it writes, so an iteration that finds
\* any other undersized block leaves the loop with nothing emitted.
C23_UndersizedOnlyWhenForced ==
    Called =>
        /\ \A i \in 1..Len(call.direct) :
              LET b == call.direct[i]
              IN /\ b.min_block = Min(pending_cap - 5, w_size)
                 /\ b.len < b.min_block =>
                       /\ flush # "NoFlush"
                       /\ b.len = b.work
                       /\ (b.len > 0 \/ flush = "Finish")
        /\ call.loop_out = call.entry.out \o DirectOutput

\* a full block and then an undersized one for a sync flush, after which
\* the loop found nothing more to write
C23_Witness ==
    /\ Called
    /\ flush = "SyncFlush"
    /\ Len(call.direct) = 2
    /\ call.direct[1].len >= call.direct[1].min_block
    /\ call.direct[2].len < call.direct[2].min_block
    /\ call.direct[2].len > 0
    /\ call.loop_out = call.entry.out \o DirectOutput

\* a block was buffered in pending by a call with flush = no-flush
BufferedWithoutFlush == Called /\ flush = "NoFlush" /\ call.buffered # <<>>

\* C24: with flush = no-flush a block is buffered in pending only if its
\* payload is at least min(pending capacity - 5, w_size) bytes long, the
\* threshold of the direct path, whatever bi_valid and the capacity.
C24_SameThreshold ==
    BufferedWithoutFlush =>
        call.buffered[1].len >= Min(pending_cap - 5, w_size)

\* C24 as the code has it: the threshold of the pending path is taken from
\* the header's real size, (bi_valid + 42) / 8 bytes, which is 6 and not 5
\* when six or seven bits are left over
C24_ThresholdFromHeaderSize ==
    BufferedWithoutFlush =>
        call.buffered[1].len >=
            Min(pending_cap - ((call.buffered[1].bi_valid + 42) \div 8), w_size)

\* C24 where the header takes five bytes
C24_SameThresholdUpToFiveBits ==
    (BufferedWithoutFlush /\ call.buffered[1].bi_valid <= 5) =>
        call.buffered[1].len >= Min(pending_cap - 5, w_size)

\* the blocks emitted so far that carry the final-block bit
FinalBlocks ==
    {i \in 1..Len(Inflated(Emitted).blocks) : Inflated(Emitted).blocks[i].final}

\* C25: when a call returns FinishDone or FinishStarted, flush is finish,
\* no input is left, the window is fully flushed, and the last block
\* emitted is the one block of all the calls with the final-block bit;
\* FinishDone is returned only when the loop wrote that block to next_out,
\* FinishStarted only when it was buffered in pending.
C25_FinishStatus ==
    (Called /\ Finished) =>
        /\ flush = "Finish"
        /\ avail_in = 0
        /\ block_start = strstart
        /\ Inflated(Emitted).whole
        /\ FinalBlocks = {Len(Inflated(Emitted).blocks)}
        /\ status = "FinishDone" =>
              /\ call.direct # <<>>
              /\ call.direct[Len(call.direct)].last
              /\ call.buffered = <<>>
        /\ status = "FinishStarted" =>
              /\ call.buffered # <<>>
              /\ call.buffered[1].last
              /\ \A i \in 1..Len(call.direct) : ~call.direct[i].last

\* a final block buffered in pending by a call whose loop had written a
\* block to next_out before
C25_Witness ==
    /\ Called
    /\ status = "FinishStarted"
    /\ call.direct # <<>>
    /\ call.buffered # <<>>
    /\ call.buffered[1].last
    /\ Len(Inflated(Emitted).blocks) >= 3

\* the stream is as the reconciliation of the window left it
AsReconciled ==
    /\ strstart = call.reconciled.strstart
    /\ block_start = call.reconciled.block_start
    /\ insert = call.reconciled.insert
    /\ window = call.reconciled.window
    /\ avail_in = call.reconciled.avail_in
    /\ total_in = call.reconciled.total_in
    /\ out = call.reconciled.out
    /\ pending = call.reconciled.pending

\* C26: a call whose loop did not write the final block returns BlockDone
\* if and only if flush is neither no-flush nor finish and, once the window
\* is reconciled, avail_in = 0 and strstart = block_start; it then returns
\* with the window not topped up and nothing buffered in pending.
C26_BlockDone ==
    (Called /\ ~call.loop_last) =>
        /\ (status = "BlockDone") <=>
              /\ flush \notin {"NoFlush", "Finish"}
              /\ call.reconciled.avail_in = 0
              /\ call.reconciled.strstart = call.reconciled.block_start
        /\ status = "BlockDone" =>
              /\ ~call.topped_up
              /\ call.buffered = <<>>
              /\ AsReconciled

\* a flush point right after the loop wrote window bytes and new input
C26_Witness ==
    /\ Called
    /\ ~call.loop_last
    /\ status = "BlockDone"
    /\ call.used > 0
    /\ call.found.strstart > 0
    /\ Len(call.direct) >= 2
    /\ AsReconciled

\* the loop copied at least a window of input to next_out
UsedWholeWindow == Called /\ call.used >= w_size

\* the last n bytes of the input consumed up to the reconciliation
LastConsumed(n) ==
    SubSeq(checked, call.reconciled.total_in - n + 1, call.reconciled.total_in)

\* C27: when used >= w_size, the reconciliation leaves in window[0 .. w_size)
\* the last w_size bytes of input consumed, in order, with strstart =
\* w_size, insert = w_size, block_start = strstart and matches = 2.
C27_HistoryReplaced ==
    UsedWholeWindow =>
        /\ SubSeq(call.reconciled.window, 1, w_size) = LastConsumed(w_size)
        /\ call.reconciled.strstart = w_size
        /\ call.reconciled.insert = w_size
        /\ call.reconciled.block_start = call.reconciled.strstart
        /\ call.reconciled.matches = 2

\* more than a window of input copied, over a window that held earlier bytes
C27_Witness ==
    /\ UsedWholeWindow
    /\ call.used > w_size
    /\ call.found.strstart > 0
    /\ SubSeq(call.found.window, 1, w_size) # LastConsumed(w_size)
    /\ SubSeq(call.reconciled.window, 1, w_size) = LastConsumed(w_size)
    /\ call.reconciled.matches = 2

\* the loop copied input to next_out
UsedInput == Called /\ call.used > 0

\* C28: when the loop copied any input to next_out, no byte of the window
\* was unflushed when the loop was left (block_start = strstart before the
\* window is replaced or slid), and everything consumed by then is in the
\* blocks written: the slide or replacement discards no byte not yet
\* emitted.
C28_NothingUnflushedWhenUsed ==
    UsedInput =>
        /\ call.found.block_start = call.found.strstart
        /\ Inflated(call.reconciled.out).whole
        /\ Payloads(Inflated(call.reconciled.out).blocks)
              = SubSeq(checked, 1, call.reconciled.total_in)

\* a slide after a block that took the unflushed window bytes and new input
C28_Witness ==
    /\ UsedInput
    /\ call.slid
    /\ call.entry.work > call.entry.avail_in
    /\ call.found.block_start = call.found.strstart
    /\ call.reconciled.matches > 0

\* the bytes an empty stored block adds to an empty pending buffer when
\* `bits` bits are left over in the bit register
PlaceholderBytes(bits) ==
    Len(zng_tr_stored_block([Cur EXCEPT !.bi_valid = bits, !.bi_buf = 0,
                                        !.pending = <<>>],
                            <<>>, FALSE).pending)

\* three header bits and the leftover bits in whole bytes, and four length
\* bytes
HeaderSize(bits) == ((bits + 3 + 7) \div 8) + 4

\* C29: for each leftover bit count 0..7 the header size (bi_valid + 42) / 8
\* is the number of bytes of the placeholder block (3 header bits and the
\* leftover bits rounded up to whole bytes, and 4 length bytes), and each
\* iteration of the direct path writes exactly that header and its payload,
\* within the avail_out it started with, and leaves nothing in pending.
C29_HeaderSize ==
    /\ \A bits \in 0..7 :
          /\ header_bytes([Cur EXCEPT !.bi_valid = bits]) = HeaderSize(bits)
          /\ header_bytes([Cur EXCEPT !.bi_valid = bits]) = PlaceholderBytes(bits)
    /\ Called =>
          \A i \in 1..Len(call.direct) :
             LET b == call.direct[i]
             IN /\ b.bi_valid \in 0..7
                /\ b.have = HeaderSize(b.bi_valid)
                /\ Len(b.written) = b.have + b.len
                /\ Len(b.written) <= b.avail_out
                /\ b.pending = <<>>

\* a block written after a two-byte start of the header, filling avail_out
C29_Witness ==
    /\ Called
    /\ \E i \in 1..Len(call.direct) :
          /\ call.direct[i].bi_valid >= 6
          /\ call.direct[i].len > 0
          /\ Len(call.direct[i].written) = call.direct[i].avail_out

\* the lengths of the blocks the call made, on the direct path and in pending
BlockLengths ==
    {call.direct[i].len : i \in 1..Len(call.direct)}
        \cup {call.buffered[i].len : i \in 1..Len(call.buffered)}

\* the call had no input and no byte of the window waited for a block
NothingToStore == Called /\ call.entry.work = 0

\* C30: deflate_stored makes an empty stored block (LEN = 0) only when
\* flush = finish, on the direct path and on the pending path alike; a call
\* with another flush, no input and nothing unflushed in the window makes
\* no block and produces no output.
C30_EmptyBlockOnlyToFinish ==
    /\ (Called /\ 0 \in BlockLengths) => flush = "Finish"
    /\ (NothingToStore /\ flush # "Finish") =>
          /\ call.direct = <<>>
          /\ call.buffered = <<>>
          /\ out = call.entry.out
          /\ pending = <<>>

\* a flushing call with nothing to store and room for a header writes
\* nothing, on a stream that has blocks behind it
C30_Witness ==
    /\ NothingToStore
    /\ flush = "SyncFlush"
    /\ call.entry.avail_out >= 5
    /\ call.entry.out # <<>>
    /\ out = call.entry.out

(***************************************************************************)
(* The claims about the window's bookkeeping and the loop's progress.      *)
(***************************************************************************)
\* insert after n more bytes went to the window
Raised(ins, n) == ins + Min(n, w_size - ins)

\* the bytes the call put in the window after the reconciliation
Filled == call.reconciled.avail_in - avail_in

\* the reconciliation slid the window down (it did not replace it)
Slid == Called /\ call.used < w_size /\ call.slid

\* C31: after any sequence of calls insert <= w_size and insert <= strstart
\* (w_size - insert does not underflow); an append or a fill of n bytes
\* raises insert by min(n, w_size - insert), a slide first caps it at the
\* new strstart, and a replacement of the history sets it to strstart.
C31_InsertBounded ==
    /\ insert <= w_size
    /\ insert <= strstart
    /\ Called =>
          /\ call.found.insert <= w_size
          /\ call.reconciled.insert <= w_size
          /\ call.reconciled.insert <= call.reconciled.strstart
          /\ call.used = 0 => call.reconciled.insert = call.found.insert
          /\ call.used >= w_size =>
                call.reconciled.insert = call.reconciled.strstart
          /\ (call.used > 0 /\ call.used < w_size /\ ~call.slid) =>
                call.reconciled.insert = Raised(call.found.insert, call.used)
          /\ Slid =>
                call.reconciled.insert
                   = Raised(Min(call.found.insert, call.found.strstart - w_size),
                            call.used)
          /\ insert = Raised(call.reconciled.insert, Filled)

\* an append to a window whose insert count is already w_size
C31_Witness ==
    /\ Called
    /\ call.used > 0
    /\ call.used < w_size
    /\ call.found.insert = w_size
    /\ call.reconciled.insert = w_size
    /\ insert <= strstart

(***************************************************************************)
(* The remaining claims about the C boundary.                              *)
(***************************************************************************)
\* C32: adler32_combine returns 0xFFFFFFFF for every negative len2, whatever
\* the two checksums, and for every len2 >= 0 returns what the engine's
\* combine gives for the two checksums as 32-bit values and that length.
C32_AdlerCombineByLength ==
    call.fn = "adler32_combine" =>
        IF call.args.len2 < 0
        THEN call.value = 0..31 /\ ~call.engine
        ELSE /\ call.engine
             /\ call.value = zlib_rs_adler32_combine(as_u32(call.args.adler1),
                                                     as_u32(call.args.adler2),
                                                     call.args.len2)

\* the smallest length that is delegated, with checksums that differ
C32_Witness ==
    /\ call.fn = "adler32_combine"
    /\ call.args.len2 = 0
    /\ call.args.adler1 # call.args.adler2
    /\ call.engine
    /\ call.value # 0..31

\* deflate or inflate was called with a flush value outside the defined set
UndefinedFlush(fn) == call.fn = fn /\ call.args.flush = "undefined"

\* the call was turned down at the boundary and the stream is as it was
TurnedDown ==
    /\ call.ret = "StreamError"
    /\ ~call.engine
    /\ z_stream = call.before

\* C33: deflate and inflate alike turn down a flush value outside the
\* defined set with StreamError and leave the stream unchanged.
C33_UndefinedFlushRejected ==
    (UndefinedFlush("deflate") \/ UndefinedFlush("inflate")) => TurnedDown

\* C33 as the code has it: deflate turns an undefined flush value down with
\* StreamError and leaves the stream unchanged; inflate turns the call down
\* only for an invalid stream, and on a valid one goes on into the engine
\* with the default flush value.
C33_OnlyDeflateRejects ==
    /\ UndefinedFlush("deflate") => TurnedDown
    /\ UndefinedFlush("inflate") =>
          IF InvalidHandle THEN TurnedDown ELSE call.engine

\* inflate on a valid stream went on with an undefined flush value
C33_Witness ==
    /\ UndefinedFlush("inflate")
    /\ ~InvalidHandle
    /\ call.engine
    /\ call.ret = "Ok"

\* the iterations of the loop that wrote a block, by position
Iterations == 1..Len(call.direct)

\* C34: the loop of deflate_stored terminates: every iteration that does not
\* leave the loop writes a block that takes at least one byte off
\* left + avail_in, which the next iteration finds reduced by exactly that,
\* except for an empty block, which is written only as the final block under
\* flush = finish; the final block is the last iteration, so the loop runs
\* at most left + avail_in + 1 times.
C34_LoopTerminates ==
    Called =>
        /\ \A i \in Iterations :
              LET b == call.direct[i]
              IN /\ b.len <= b.work
                 /\ b.len = 0 => (b.last /\ flush = "Finish")
                 /\ b.last => i = Len(call.direct)
                 /\ i < Len(call.direct) =>
                       /\ call.direct[i + 1].work = b.work - b.len
                       /\ call.direct[i + 1].work < b.work
        /\ Len(call.direct) <= call.entry.work + 1
        /\ call.loop_last =>
              (call.direct # <<>> /\ call.direct[Len(call.direct)].last)

\* a loop of two blocks, the second the final one
C34_Witness ==
    /\ Called
    /\ Len(call.direct) = 2
    /\ ~call.direct[1].last
    /\ call.direct[2].last
    /\ call.direct[2].work < call.direct[1].work
    /\ call.loop_last

\* the bytes the slide moves: those from w_size up to strstart
Moved == call.found.strstart - w_size

\* C35: whenever the reconciliation slides the window, strstart >= w_size
\* before it (strstart -= w_size does not underflow); the length copied,
\* strstart - w_size, is at most w_size, so the source [w_size, strstart) and
\* the destination [0, strstart - w_size) do not overlap and the bytes
\* arrive unchanged; and matches goes up by one, but not above 2.
C35_SlideInBounds ==
    Slid =>
        /\ call.found.strstart >= w_size
        /\ Moved <= w_size
        /\ (0..(Moved - 1)) \cap (w_size..(call.found.strstart - 1)) = {}
        /\ call.found.strstart <= window_size
        /\ SubSeq(call.reconciled.window, 1, Moved)
              = SubSeq(call.found.window, w_size + 1, call.found.strstart)
        /\ call.reconciled.strstart = Moved + call.used
        /\ call.reconciled.matches = Min(call.found.matches + 1, 2)
        /\ call.reconciled.matches \in 1..2

\* a slide that moves a byte, with the hash already marked for clearing
C35_Witness ==
    /\ Slid
    /\ Moved > 0
    /\ call.found.matches = 2
    /\ call.reconciled.matches = 2

====
